---- MODULE Spec2Model ----
(***************************************************************************)
(* Position reconciliation of chessboard-sense: ChessPosition.next over a  *)
(* PiecesPlacement, driving a chess.js rules engine.                        *)
(***************************************************************************)
EXTENDS Integers, Sequences, FiniteSets, TLC

VARIABLES
  chess,     \* the chess.js engine shared by the positions
  pos,       \* the ChessPosition most recently returned
  receiver,  \* the ChessPosition the last next call was made on (its `this`)
  log,       \* the message of the last console.log
  calls,     \* the engine calls the last next issued, in order
  observed,  \* the placement handed to the last next
  game,      \* the ChessGame session: gameState and onChangeCallback
  lastCall,  \* the last call made on the session, with its argument
  notified,  \* the observer invocations so far, in order
  built,     \* a PiecesPlacement under construction, or the error thrown instead
  source,    \* the call that produced it, with its argument
  printed,   \* the text toFen returned for it, if it was called
  held,      \* the pieces arrays of the placements the client holds, oldest first
  answer     \* the last query on placements or squares: arguments and result

vars == <<chess, pos, receiver, log, calls, observed, game, lastCall, notified,
          built, source, printed, held, answer>>

\* the bound of the session model: updatePlacement is no longer called once this
\* many observer invocations are recorded
MaxNotified == 3

(***************************************************************************)
(* Bounds of the model.                                                     *)
(***************************************************************************)
\* the engine's history is capped at this many half-moves
MaxPly == 3

(***************************************************************************)
(* piece.ts / PiecesPlacement.ts: value types.                              *)
(***************************************************************************)
null == "null"

PIECE_SYMBOLS == <<"P", "N", "B", "R", "Q", "K", "p", "n", "b", "r", "q", "k">>

Pieces == {PIECE_SYMBOLS[i] : i \in DOMAIN PIECE_SYMBOLS}

toUpperCase(s) ==
  CASE s = "p" -> "P" [] s = "n" -> "N" [] s = "b" -> "B"
    [] s = "r" -> "R" [] s = "q" -> "Q" [] s = "k" -> "K"
    [] OTHER -> s

toLowerCase(s) ==
  CASE s = "P" -> "p" [] s = "N" -> "n" [] s = "B" -> "b"
    [] s = "R" -> "r" [] s = "Q" -> "q" [] s = "K" -> "k"
    [] OTHER -> s

\* Piece.color(): upper-case symbols are white
color(piece) == IF piece = toUpperCase(piece) THEN "w" ELSE "b"

Indices == 0 .. 63

\* Square.ALL[index]
squareAt(index) == [kind |-> "square", index |-> index]

\* a thrown Error('Invalid square ...')
SquareError == [kind |-> "error"]

\* the null the try variants return
noSquareValue == [kind |-> "null"]

\* Square.fromCoords: rank 0 = rank 1, file 0 = a-file
fromCoords(rank, file) ==
  IF rank < 0 \/ rank > 7 \/ file < 0 \/ file > 7 THEN SquareError
  ELSE squareAt((7 - rank) * 8 + file)

\* Square.tryFromCoords
tryFromCoords(rank, file) ==
  IF rank < 0 \/ rank > 7 \/ file < 0 \/ file > 7 THEN noSquareValue
  ELSE squareAt((7 - rank) * 8 + file)

\* mutant of fromIndex: the upper limit is one too high
fromIndex_oneMore(index) ==
  IF index < 0 \/ index > 64 THEN SquareError ELSE squareAt(index)

\* Square.fromIndex
fromIndex(index) ==
  IF index < 0 \/ index > 63 THEN SquareError ELSE squareAt(index)

\* Square.tryFromIndex
tryFromIndex(index) ==
  IF index < 0 \/ index > 63 THEN noSquareValue ELSE squareAt(index)

rankOf(index) == 7 - (index \div 8)

fileOf(index) == index % 8

STARTING_PIECES ==
  [i \in Indices |->
     CASE i \in 8 .. 15 -> "p"
       [] i \in 48 .. 55 -> "P"
       [] i \in 16 .. 47 -> null
       [] i < 8 -> <<"r", "n", "b", "q", "k", "b", "n", "r">>[i + 1]
       [] OTHER -> <<"R", "N", "B", "Q", "K", "B", "N", "R">>[i - 55]]

empty == [i \in Indices |-> null]

starting == STARTING_PIECES

\* what a slot of an array that was never written reads as
undefined == "undefined"

\* pieceAtIndex(index): this.pieces[index] ?? null, null for a slot never
\* written and for an index the array does not have
pieceAtIndex(placement, index) ==
  IF index \notin DOMAIN placement THEN null
  ELSE IF placement[index] = undefined THEN null
  ELSE placement[index]

\* isStarting(): the first index whose slot is not the starting piece is written
\* to the console with the two pieces, console.log(i, this.pieces[i],
\* STARTING_PIECES[i]), and the answer is false; true and no line otherwise
isStarting(placement) ==
  LET slot(i) == IF i \in DOMAIN placement THEN placement[i] ELSE undefined
      off == {i \in Indices : slot(i) # STARTING_PIECES[i]}
  IN IF off = {} THEN [result |-> TRUE, written |-> FALSE]
     ELSE \* the loop returns at the lowest such index
          LET i == CHOOSE i \in off : \A j \in off : i <= j
          IN [result |-> FALSE, written |-> TRUE,
              line |-> ToString(i) \o " " \o slot(i) \o " " \o STARTING_PIECES[i]]

\* isEmpty(): every slot is null; a slot never written is not
isEmpty(placement) ==
  \A i \in Indices : i \in DOMAIN placement /\ placement[i] = null

\* array.length: one more than the largest index written
length(array) == Cardinality({i \in DOMAIN array : i >= 0})

\* [...array]: the slots 0 .. length-1; a property under a negative key is not
\* copied
spread(array) ==
  IF \A i \in DOMAIN array : i >= 0 THEN array
  ELSE [i \in {j \in DOMAIN array : j >= 0} |-> array[i]]

\* array[index] = value: a write past the end grows the array, the slots in
\* between reading undefined; a negative index adds a property and leaves the
\* length alone
store(array, index, value) ==
  IF index \in DOMAIN array THEN [array EXCEPT ![index] = value]
  ELSE [i \in DOMAIN array \cup (IF index >= 0 THEN 0 .. index ELSE {index}) |->
          IF i = index THEN value
          ELSE IF i \in DOMAIN array THEN array[i] ELSE undefined]

\* PiecesPlacement.withPieceAtIndex: the pieces of the new placement
withPieceAtIndex(placement, index, piece) == store(spread(placement), index, piece)

\* mutant of withPieceAtIn: the write goes to the array of `this`, which the new
\* placement shares
withPieceAtIn_inPlace(objects, this, index, piece) ==
  Append([objects EXCEPT ![this] = store(@, index, piece)],
         store(objects[this], index, piece))

\* PiecesPlacement.withPieceAtIndex over the placements in memory: a new
\* placement is allocated around a copy of the array of `this`
withPieceAtIn(objects, this, index, piece) ==
  Append(objects, withPieceAtIndex(objects[this], index, piece))

\* the loop of fillRank over the eight slots of the row
RECURSIVE fillFrom(_, _, _, _)
fillFrom(newPieces, startIndex, pieces, i) ==
  IF i = 8 THEN newPieces
  ELSE fillFrom(store(newPieces, startIndex + i, pieces[i + 1]), startIndex, pieces, i + 1)

\* PiecesPlacement.fillRank: the pieces of the new placement, or the error thrown
fillRank(placement, rankIndex, pieces) ==
  IF Len(pieces) # 8 THEN [ok |-> FALSE]
  ELSE [ok |-> TRUE, pieces |-> fillFrom(spread(placement), rankIndex * 8, pieces, 0)]

\* least element of a non-empty set of integers
least(S) == CHOOSE x \in S : \A y \in S : x <= y

\* PiecesPlacement.toFen: the loop body for squares i .. last of one rank; out is
\* rankStr, emptyCount the run of empty squares so far
RECURSIVE toFenFrom(_, _, _, _, _)
toFenFrom(pieces, i, last, out, emptyCount) ==
  LET piece == pieces[i]
      cnt1 == IF piece = null THEN emptyCount + 1 ELSE 0
      out1 == IF piece = null THEN out
              ELSE IF emptyCount > 0 THEN out \o <<ToString(emptyCount), piece>>
              ELSE Append(out, piece)
  IN IF i = last
     THEN (IF cnt1 > 0 THEN Append(out1, ToString(cnt1)) ELSE out1)
     ELSE toFenFrom(pieces, i + 1, last, out1, cnt1)

\* ranks.join('/')
join(ranks) ==
  ranks[1] \o <<"/">> \o ranks[2] \o <<"/">> \o ranks[3] \o <<"/">> \o ranks[4]
    \o <<"/">> \o ranks[5] \o <<"/">> \o ranks[6] \o <<"/">> \o ranks[7]
    \o <<"/">> \o ranks[8]

\* mutant of toFen: the ranks are written from the last one to the first
toFen_bottomUp(placement) ==
  join([k \in 1 .. 8 |-> toFenFrom(placement, (8 - k) * 8, (8 - k) * 8 + 7, <<>>, 0)])

\* PiecesPlacement.toFen: run-length encoding, rank by rank from index 0; the
\* run of empty squares is flushed and reset at the end of every rank
toFen(placement) ==
  join([k \in 1 .. 8 |-> toFenFrom(placement, (k - 1) * 8, (k - 1) * 8 + 7, <<>>, 0)])

Digits == {"1", "2", "3", "4", "5", "6", "7", "8"}

\* the characters Number.parseInt reads as a number, every other one giving NaN
DecimalDigits == Digits \cup {"0", "9"}

parseInt(char) ==
  CASE char = "1" -> 1 [] char = "2" -> 2 [] char = "3" -> 3 [] char = "4" -> 4
    [] char = "5" -> 5 [] char = "6" -> 6 [] char = "7" -> 7 [] char = "8" -> 8
    [] char = "0" -> 0 [] char = "9" -> 9

\* Piece.tryParse
tryParse(symbol) == IF symbol \in Pieces THEN symbol ELSE null

\* a thrown Error('Invalid FEN: ...')
ParseError == [ok |-> FALSE]

parsed(pieces) == [ok |-> TRUE, pieces |-> pieces]

\* A text is a sequence of characters.  An ASCII character is the string of
\* that one character; a character outside ASCII is the string of its code
\* point, "U+" and four hexadecimal digits ("U+00A0" is the no-break space,
\* "U+00E9" the letter e with an acute accent), so that every character of the
\* source's strings has one spelling here whatever the encoding of this file.

\* U+000B, the vertical tab, an ASCII control character
verticalTab == ""

\* the white space outside ASCII: U+00A0 no-break space, U+1680 ogham space
\* mark, U+2000 to U+200A (en quad to hair space), U+2028 line separator,
\* U+2029 paragraph separator, U+202F narrow no-break space, U+205F medium
\* mathematical space, U+3000 ideographic space, U+FEFF byte order mark
UnicodeSpaces ==
  {"U+00A0", "U+1680", "U+2000", "U+2001", "U+2002", "U+2003", "U+2004", "U+2005",
   "U+2006", "U+2007", "U+2008", "U+2009", "U+200A", "U+2028", "U+2029", "U+202F",
   "U+205F", "U+3000", "U+FEFF"}

\* the characters trim() strips and /\s+/ matches, ECMAScript's WhiteSpace and
\* LineTerminator: blank, tab, line feed, carriage return, form feed, vertical
\* tab, and the white space outside ASCII
Whitespace == {" ", "\t", "\n", "\r", "\f", verticalTab} \cup UnicodeSpaces

\* fen.trim().split(/\s+/)[0]
firstPart(fen) ==
  LET ink == {i \in 1 .. Len(fen) : fen[i] \notin Whitespace}
      start == IF ink = {} THEN Len(fen) + 1 ELSE least(ink)
      gaps == {i \in start .. Len(fen) : fen[i] \in Whitespace}
      stop == IF gaps = {} THEN Len(fen) + 1 ELSE least(gaps)
  IN SubSeq(fen, start, stop - 1)

\* text.split(sep)
split(text, sep) ==
  LET at == SelectSeq([i \in 1 .. Len(text) |-> i], LAMBDA i : text[i] = sep)
      cut(k) == IF k = 0 THEN 0 ELSE IF k > Len(at) THEN Len(text) + 1 ELSE at[k]
  IN [k \in 1 .. Len(at) + 1 |-> SubSeq(text, cut(k - 1) + 1, cut(k) - 1)]

\* the inner loop of fromFen over the characters of one rank; acc carries the
\* pieces array, squareIndex and whether an invalid piece symbol was met.  A write
\* at index 64 or beyond grows the array in the source and always ends in the
\* square-count error.
RECURSIVE fromFenRank(_, _, _)
fromFenRank(rank, i, acc) ==
  IF i > Len(rank) \/ ~acc.ok THEN acc
  ELSE
    LET char == rank[i] IN
    IF char \in Digits
    THEN fromFenRank(rank, i + 1,
                     [acc EXCEPT !.squareIndex = acc.squareIndex + parseInt(char)])
    ELSE IF tryParse(char) = null THEN [acc EXCEPT !.ok = FALSE]
    ELSE fromFenRank(rank, i + 1,
                     [acc EXCEPT
                        !.pieces = IF acc.squareIndex \in Indices
                                   THEN [acc.pieces EXCEPT ![acc.squareIndex] = char]
                                   ELSE acc.pieces,
                        !.squareIndex = acc.squareIndex + 1])

\* the outer loop of fromFen over the ranks
RECURSIVE fromFenRanks(_, _, _)
fromFenRanks(ranks, k, acc) ==
  IF k > Len(ranks) THEN acc
  ELSE fromFenRanks(ranks, k + 1, fromFenRank(ranks[k], 1, acc))

\* mutant of fromFen: the number of squares described is not checked
fromFen_noCount(fen) ==
  LET piecePlacement == firstPart(fen)
      ranks == split(piecePlacement, "/")
  IN IF Len(ranks) # 8 THEN ParseError
     ELSE LET acc == fromFenRanks(ranks, 1,
                                  [ok |-> TRUE, pieces |-> empty, squareIndex |-> 0])
          IN IF ~acc.ok THEN ParseError
             ELSE parsed(acc.pieces)

\* PiecesPlacement.fromFen: the placement parsed, or the error thrown
fromFen(fen) ==
  LET piecePlacement == firstPart(fen)
      ranks == split(piecePlacement, "/")
  IN IF Len(ranks) # 8 THEN ParseError
     ELSE LET acc == fromFenRanks(ranks, 1,
                                  [ok |-> TRUE, pieces |-> empty, squareIndex |-> 0])
          IN IF ~acc.ok THEN ParseError
             ELSE IF acc.squareIndex # 64 THEN ParseError
             ELSE parsed(acc.pieces)

\* mutant of diffLimit: the scan stops one change late
diffLimit_oneLate(this, other, limit) ==
  LET changed == SelectSeq([k \in 1 .. 64 |-> k - 1], LAMBDA i : this[i] # other[i])
      n == IF Len(changed) < limit + 1 THEN Len(changed) ELSE limit + 1
  IN [k \in 1 .. n |->
        [square |-> changed[k], before |-> this[changed[k]],
         after |-> other[changed[k]]]]

\* PiecesPlacement.diff(other, limit): the squares whose occupant differs, in
\* index order 0..63, the scan stopping once `limit` changes are collected
diffLimit(this, other, limit) ==
  LET changed == SelectSeq([k \in 1 .. 64 |-> k - 1], LAMBDA i : this[i] # other[i])
      n == IF Len(changed) < limit THEN Len(changed) ELSE limit
  IN [k \in 1 .. n |->
        [square |-> changed[k], before |-> this[changed[k]],
         after |-> other[changed[k]]]]

diff(this, other) == diffLimit(this, other, 64)

\* mutant of equals: the difference is asked for with limit 0
equals_limitZero(this, other) == Len(diffLimit(this, other, 0)) = 0

\* PiecesPlacement.equals
equals(this, other) == Len(diffLimit(this, other, 1)) = 0

(***************************************************************************)
(* The rules engine (chess.js `Chess`), as used through chess.fen(),        *)
(* chess.turn(), chess.moves({verbose: true}), chess.move(m), chess.undo()  *)
(* and chess.history().  Its state: board, side to move, castling rights,   *)
(* en-passant square, move counters and the stack of applied moves.         *)
(***************************************************************************)
WhiteSymbols == {"P", "N", "B", "R", "Q", "K"}

pieceColor(p) == IF p \in WhiteSymbols THEN "w" ELSE "b"

swapColor(c) == IF c = "w" THEN "b" ELSE "w"

symbolOf(c, type) == IF c = "w" THEN toUpperCase(type) ELSE type

onBoard(r, c) == r \in 0 .. 7 /\ c \in 0 .. 7

idx(r, c) == r * 8 + c

noSquare == 0 - 1

KNIGHT_OFFSETS ==
  << <<0 - 1, 0 - 2>>, <<0 - 2, 0 - 1>>, <<0 - 2, 1>>, <<0 - 1, 2>>,
     <<1, 2>>, <<2, 1>>, <<2, 0 - 1>>, <<1, 0 - 2>> >>

BISHOP_OFFSETS == << <<0 - 1, 0 - 1>>, <<0 - 1, 1>>, <<1, 1>>, <<1, 0 - 1>> >>

ROOK_OFFSETS == << <<0 - 1, 0>>, <<0, 1>>, <<1, 0>>, <<0, 0 - 1>> >>

QUEEN_OFFSETS ==
  << <<0 - 1, 0 - 1>>, <<0 - 1, 0>>, <<0 - 1, 1>>, <<0, 1>>,
     <<1, 1>>, <<1, 0>>, <<1, 0 - 1>>, <<0, 0 - 1>> >>

pieceOffsets(type) ==
  CASE type = "n" -> KNIGHT_OFFSETS
    [] type = "b" -> BISHOP_OFFSETS
    [] type = "r" -> ROOK_OFFSETS
    [] OTHER -> QUEEN_OFFSETS

PROMOTIONS == <<"q", "r", "b", "n">>

\* first occupied square from (r, c), exclusive, in direction (dr, dc)
RECURSIVE firstOnRay(_, _, _, _, _)
firstOnRay(board, r, c, dr, dc) ==
  LET r1 == r + dr
      c1 == c + dc
  IN IF ~onBoard(r1, c1) THEN noSquare
     ELSE IF board[idx(r1, c1)] # null THEN idx(r1, c1)
     ELSE firstOnRay(board, r1, c1, dr, dc)

\* is `square` attacked by a piece of colour `by`
attacked(board, by, square) ==
  \E a \in
      {<<k, 1, KNIGHT_OFFSETS[k], {"n"}>> : k \in 1 .. 8}
        \cup {<<k, 1, QUEEN_OFFSETS[k], {"k"}>> : k \in 1 .. 8}
        \cup {<<k, 1, <<IF by = "w" THEN 1 ELSE 0 - 1, 2 * k - 3>>, {"p"}>> : k \in 1 .. 2}
        \cup {<<k, 8, ROOK_OFFSETS[k], {"r", "q"}>> : k \in 1 .. 4}
        \cup {<<k, 8, BISHOP_OFFSETS[k], {"b", "q"}>> : k \in 1 .. 4} :
    \E s \in {firstOnRay(board, square \div 8, square % 8, a[3][1], a[3][2])} :
      /\ s # noSquare
      /\ board[s] \in {symbolOf(by, t) : t \in a[4]}
      /\ \/ a[2] = 8
         \/ s = idx(square \div 8 + a[3][1], (square % 8) + a[3][2])

kingSquare(board, c) == CHOOSE s \in Indices : board[s] = symbolOf(c, "k")

isKingAttacked(board, c) == attacked(board, swapColor(c), kingSquare(board, c))

\* the board after a move (chess.js _makeMove, board part)
boardAfter(board, m) ==
  LET us == m.color
      placed == IF m.promotion # null THEN symbolOf(us, m.promotion) ELSE board[m.from]
      b1 == [board EXCEPT ![m.from] = null, ![m.to] = placed]
      b2 == IF m.flags = "e"
            THEN [b1 EXCEPT ![IF us = "w" THEN m.to + 8 ELSE m.to - 8] = null]
            ELSE b1
  IN CASE m.flags = "k" -> [b2 EXCEPT ![m.to + 1] = null, ![m.to - 1] = board[m.to + 1]]
       [] m.flags = "q" -> [b2 EXCEPT ![m.to - 2] = null, ![m.to + 1] = board[m.to - 2]]
       [] OTHER -> b2

rookRight(c, square) ==
  CASE c = "w" /\ square = 63 -> {"K"}
    [] c = "w" /\ square = 56 -> {"Q"}
    [] c = "b" /\ square = 7 -> {"k"}
    [] c = "b" /\ square = 0 -> {"q"}
    [] OTHER -> {}

castlingAfter(st, m) ==
  LET us == m.color
      kingMoved == IF m.piece = "k"
                   THEN (IF us = "w" THEN {"K", "Q"} ELSE {"k", "q"}) ELSE {}
  IN ((st.castling \ kingMoved) \ rookRight(us, m.from)) \ rookRight(swapColor(us), m.to)

algebraic(index) ==
  <<(<<"a", "b", "c", "d", "e", "f", "g", "h">>)[fileOf(index) + 1],
    ToString(rankOf(index) + 1)>>

castlingField(rights) ==
  LET out == SelectSeq(<<"K", "Q", "k", "q">>, LAMBDA x : x \in rights)
  IN IF out = <<>> THEN <<"-">> ELSE out

\* chess.fen(): placement field, then side, castling, en passant and the counters
fenOf(board, turn, castling, epSquare, halfMoves, moveNumber) ==
  toFen(board) \o <<" ", turn, " ">> \o castlingField(castling) \o <<" ">>
    \o (IF epSquare = noSquare THEN <<"-">> ELSE algebraic(epSquare))
    \o <<" ", ToString(halfMoves), " ", ToString(moveNumber)>>

fen(st) == fenOf(st.board, st.turn, st.castling, st.epSquare, st.halfMoves, st.moveNumber)

\* the engine after a move, without its history entry
fieldsAfter(st, m) ==
  [board |-> boardAfter(st.board, m),
   turn |-> swapColor(st.turn),
   castling |-> castlingAfter(st, m),
   epSquare |-> IF m.flags = "b"
                THEN (IF m.color = "w" THEN m.to + 8 ELSE m.to - 8) ELSE noSquare,
   halfMoves |-> IF m.piece = "p" \/ m.captured # null THEN 0 ELSE st.halfMoves + 1,
   moveNumber |-> IF st.turn = "b" THEN st.moveNumber + 1 ELSE st.moveNumber]

\* a move as generated, before its `after` FEN is filled in
buildMove(st, from, to, flags, promotion) ==
  [color |-> st.turn, from |-> from, to |-> to,
   piece |-> toLowerCase(st.board[from]),
   captured |-> IF flags = "e" THEN "p"
                ELSE IF st.board[to] # null THEN toLowerCase(st.board[to])
                ELSE null,
   promotion |-> promotion, flags |-> flags]

\* the verbose Move object: the generated move with the FEN after it
verbose(st, m) == m @@ [after |-> fen(fieldsAfter(st, m))]

\* addMove: a pawn reaching the last rank yields one move per promotion piece
addMove(st, from, to, flags) ==
  IF toLowerCase(st.board[from]) = "p" /\ (to \div 8 = 0 \/ to \div 8 = 7)
  THEN [k \in 1 .. 4 |-> buildMove(st, from, to, flags, PROMOTIONS[k])]
  ELSE <<buildMove(st, from, to, flags, null)>>

RECURSIVE slideMoves(_, _, _, _, _, _, _)
slideMoves(st, from, r, c, dr, dc, single) ==
  LET r1 == r + dr
      c1 == c + dc
  IN IF ~onBoard(r1, c1) THEN <<>>
     ELSE LET t == st.board[idx(r1, c1)] IN
          IF t = null
          THEN addMove(st, from, idx(r1, c1), "n")
                 \o (IF single THEN <<>> ELSE slideMoves(st, from, r1, c1, dr, dc, single))
          ELSE IF pieceColor(t) = st.turn THEN <<>>
          ELSE addMove(st, from, idx(r1, c1), "c")

\* seqs[lo] \o ... \o seqs[hi]
RECURSIVE concatAll(_, _, _)
concatAll(seqs, lo, hi) ==
  IF lo = hi THEN seqs[lo]
  ELSE LET mid == (lo + hi) \div 2
       IN concatAll(seqs, lo, mid) \o concatAll(seqs, mid + 1, hi)

\* one candidate pawn move: a push of `steps` squares (dc = 0) or a capture
pawnStep(st, from, steps, dc) ==
  LET dr == IF st.turn = "w" THEN 0 - 1 ELSE 1
      r == from \div 8 + steps * dr
      c == (from % 8) + dc
      flags ==
        IF ~onBoard(r, c) THEN null
        ELSE IF dc = 0
        THEN (IF st.board[idx(r, c)] # null THEN null
              ELSE IF steps = 1 THEN "n"
              ELSE IF from \div 8 = (IF st.turn = "w" THEN 6 ELSE 1)
                      /\ st.board[idx(r - dr, c)] = null THEN "b"
              ELSE null)
        ELSE IF st.board[idx(r, c)] # null
        THEN (IF pieceColor(st.board[idx(r, c)]) # st.turn THEN "c" ELSE null)
        ELSE IF idx(r, c) = st.epSquare THEN "e"
        ELSE null
  IN IF flags = null THEN <<>> ELSE addMove(st, from, idx(r, c), flags)

\* pushes of one and two squares, then the captures to the left and to the right
pawnMoves(st, from) ==
  concatAll([k \in 1 .. 4 |->
               pawnStep(st, from, IF k = 2 THEN 2 ELSE 1,
                        IF k = 3 THEN 0 - 1 ELSE IF k = 4 THEN 1 ELSE 0)],
            1, 4)

pieceMoves(st, from) ==
  LET type == toLowerCase(st.board[from])
      offs == pieceOffsets(type)
      single == type \in {"n", "k"}
  IN concatAll([k \in 1 .. Len(offs) |->
                  slideMoves(st, from, from \div 8, from % 8,
                             offs[k][1], offs[k][2], single)],
               1, Len(offs))

squareMoves(st, from) ==
  LET p == st.board[from] IN
  IF p = null \/ pieceColor(p) # st.turn THEN <<>>
  ELSE IF toLowerCase(p) = "p" THEN pawnMoves(st, from)
  ELSE pieceMoves(st, from)

\* castling to one side (dir = 1 king side, dir = -1 queen side) of the king on
\* `from`: the right is held, the squares between king and rook are empty, and
\* the king's square and the two it crosses are not attacked
castlingSide(st, from, dir) ==
  IF /\ (IF dir = 1 THEN symbolOf(st.turn, "k") ELSE symbolOf(st.turn, "q"))
          \in st.castling
     /\ \A n \in 1 .. (IF dir = 1 THEN 2 ELSE 3) : st.board[from + dir * n] = null
     /\ \A n \in 0 .. 2 : ~attacked(st.board, swapColor(st.turn), from + dir * n)
  THEN <<buildMove(st, from, from + 2 * dir, IF dir = 1 THEN "k" ELSE "q", null)>>
  ELSE <<>>

castlingMoves(st) ==
  concatAll([k \in 1 .. 2 |->
               castlingSide(st, kingSquare(st.board, st.turn), 3 - 2 * k)],
            1, 2)

pseudoMoves(st) ==
  concatAll([k \in 1 .. 64 |-> squareMoves(st, k - 1)], 1, 64) \o castlingMoves(st)

\* chess.moves({ verbose: true }): the legal moves, in generation order
legalOf(st) ==
  SelectSeq(pseudoMoves(st),
            LAMBDA m : ~isKingAttacked(boardAfter(st.board, m), st.turn))

verboseAll(st, legal) == [k \in 1 .. Len(legal) |-> verbose(st, legal[k])]

moves(st) == verboseAll(st, legalOf(st))

sameMove(a, b) == a.from = b.from /\ a.to = b.to /\ a.promotion = b.promotion

\* chess.move(m) throws 'Invalid move' unless m is among the legal moves
isLegal(st, m) ==
  \E legal \in {legalOf(st)} : \E k \in DOMAIN legal : sameMove(legal[k], m)

\* chess.move(m), for a legal m: make the move and push the history entry
move(st, m) ==
  fieldsAfter(st, m)
    @@ [history |-> Append(st.history,
                           [move |-> m, board |-> st.board, turn |-> st.turn,
                            castling |-> st.castling, epSquare |-> st.epSquare,
                            halfMoves |-> st.halfMoves, moveNumber |-> st.moveNumber])]

\* chess.undo(): take back the last move; a no-op on an empty history
undo(st) ==
  IF st.history = <<>> THEN st
  ELSE LET old == st.history[Len(st.history)]
       IN [board |-> old.board, turn |-> old.turn, castling |-> old.castling,
           epSquare |-> old.epSquare, halfMoves |-> old.halfMoves,
           moveNumber |-> old.moveNumber,
           history |-> SubSeq(st.history, 1, Len(st.history) - 1)]

\* new Chess(): the standard starting position
newChess ==
  [board |-> STARTING_PIECES, turn |-> "w", castling |-> {"K", "Q", "k", "q"},
   epSquare |-> noSquare, halfMoves |-> 0, moveNumber |-> 1, history |-> <<>>]


(***************************************************************************)
(* ChessPosition: placement, alteration, turnSide, pendingSide, returned,   *)
(* over the shared engine `chess`.                                          *)
(***************************************************************************)
\* alteration === null and pendingSide === null
noAlteration == [type |-> null]

noPending == [color |-> null]

errors(targets) == [type |-> "errors", targets |-> targets]

lifted(piece, square) == [type |-> "lifted", piece |-> piece, square |-> square]

\* text.split(' ')[0]
splitFirst(text) == split(text, " ")[1]

\* new ChessPosition(chess, alteration, turnSide, pendingSide, returned)
ChessPosition(st, alteration, turnSide, pendingSide, returned) ==
  [placement |-> fromFen(splitFirst(fen(st))).pieces,
   alteration |-> alteration,
   turnSide |-> turnSide,
   pendingSide |-> pendingSide,
   returned |-> returned]

\* chess.isCheck()
isCheck(st) == isKingAttacked(st.board, st.turn)

\* chess.isCheckmate()
isCheckmate(st) == isCheck(st) /\ legalOf(st) = <<>>

\* chess.isStalemate()
isStalemate(st) == ~isCheck(st) /\ legalOf(st) = <<>>

\* chess.isInsufficientMaterial(): king against king, a single knight or bishop
\* besides the kings, or bishops only, all on squares of one colour
isInsufficientMaterial(st) ==
  LET numPieces == Cardinality({i \in Indices : st.board[i] # null})
      bishops == {i \in Indices : st.board[i] \in {"b", "B"}}
      knights == {i \in Indices : st.board[i] \in {"n", "N"}}
      squareColor(i) == ((i \div 8) + (i % 8) + 1) % 2
  IN \/ numPieces = 2
     \/ numPieces = 3 /\ (Cardinality(bishops) = 1 \/ Cardinality(knights) = 1)
     \/ /\ numPieces = Cardinality(bishops) + 2
        /\ \/ \A i \in bishops : squareColor(i) = 0
           \/ \A i \in bishops : squareColor(i) = 1

\* the part of chess.fen() positions are counted under: placement, side to move,
\* castling rights and en passant square
positionKey(fields) ==
  fenOf(fields.board, fields.turn, fields.castling, fields.epSquare, 0, 1)

\* chess.isThreefoldRepetition(): the position on the board has stood at least
\* three times, the start of the game and the position after every move counted
isThreefoldRepetition(st) ==
  Cardinality({k \in 1 .. Len(st.history) :
                 positionKey(st.history[k]) = positionKey(st)}) + 1 >= 3

\* chess.isDrawByFiftyMoves()
isDrawByFiftyMoves(st) == st.halfMoves >= 100

\* mutant of gameEnding: insufficient material is asked for before stalemate
gameEnding_drawFirst(st) ==
  IF isCheckmate(st) THEN "checkmate"
  ELSE IF isInsufficientMaterial(st) THEN "insufficient_material"
  ELSE IF isStalemate(st) THEN "stalemate"
  ELSE IF isThreefoldRepetition(st) THEN "threefold_repetition"
  ELSE IF isDrawByFiftyMoves(st) THEN "50move_rule"
  ELSE null

\* ChessPosition.gameEnding, on a position whose engine is st
gameEnding(st) ==
  IF isCheckmate(st) THEN "checkmate"
  ELSE IF isStalemate(st) THEN "stalemate"
  ELSE IF isInsufficientMaterial(st) THEN "insufficient_material"
  ELSE IF isThreefoldRepetition(st) THEN "threefold_repetition"
  ELSE IF isDrawByFiftyMoves(st) THEN "50move_rule"
  ELSE null

\* chess.js getDisambiguator: what tells the move from the other legal moves of
\* a piece of the same type to the same square
disambiguator(legal, m) ==
  LET others == {k \in DOMAIN legal :
                   /\ legal[k].piece = m.piece
                   /\ legal[k].to = m.to
                   /\ legal[k].from # m.from}
      sameRank == {k \in others : rankOf(legal[k].from) = rankOf(m.from)}
      sameFile == {k \in others : fileOf(legal[k].from) = fileOf(m.from)}
  IN IF others = {} THEN <<>>
     ELSE IF sameRank # {} /\ sameFile # {} THEN algebraic(m.from)
     ELSE IF sameFile # {} THEN <<algebraic(m.from)[2]>>
     ELSE <<algebraic(m.from)[1]>>

\* the + or # written after a move that gives check or mate
checkMark(after) ==
  IF isCheck(after) THEN (IF isCheckmate(after) THEN <<"#">> ELSE <<"+">>) ELSE <<>>

\* move.san of a verbose history entry: the move as written from the position
\* it was made in
san(entry, m) ==
  (IF m.flags = "k" THEN <<"O", "-", "O">>
   ELSE IF m.flags = "q" THEN <<"O", "-", "O", "-", "O">>
   ELSE (IF m.piece # "p"
         THEN <<toUpperCase(m.piece)>> \o disambiguator(legalOf(entry), m)
         ELSE <<>>)
        \o (IF m.captured # null
            THEN (IF m.piece = "p" THEN <<algebraic(m.from)[1]>> ELSE <<>>) \o <<"x">>
            ELSE <<>>)
        \o algebraic(m.to)
        \o (IF m.promotion # null THEN <<"=", toUpperCase(m.promotion)>> ELSE <<>>))
    \o checkMark(fieldsAfter(entry, m))

\* chess.history({ verbose: true }): the applied moves, oldest first, each with
\* its san
verboseHistory(st) ==
  [k \in 1 .. Len(st.history) |-> [san |-> san(st.history[k], st.history[k].move)]]

\* mutant of movesHistory: the loop advances by one half-move
movesHistory_everyMove(st) ==
  LET played == verboseHistory(st) IN
  [j \in 1 .. Len(played) |->
     [white |-> played[j].san,
      black |-> IF j + 1 <= Len(played) THEN played[j + 1].san ELSE null]]

\* ChessPosition.movesHistory(): for (i = 0; i < history.length; i += 2) a turn
\* of history[i].san and history[i + 1].san, null where there is no history[i + 1]
movesHistory(st) ==
  LET played == verboseHistory(st) IN
  [j \in 1 .. (Len(played) + 1) \div 2 |->
     [white |-> played[2 * j - 1].san,
      black |-> IF 2 * j <= Len(played) THEN played[2 * j].san ELSE null]]

\* mutant of initial: the legal moves of the start are not computed
initial_noMoves ==
  ChessPosition(newChess, noAlteration, [color |-> "w", legalMoves |-> <<>>],
                noPending, FALSE)

\* ChessPosition.initial()
initial ==
  ChessPosition(newChess, noAlteration,
                [color |-> "w", legalMoves |-> moves(newChess)], noPending, FALSE)

\* toFEN(): the FEN of the engine the position holds; every position made by
\* next holds the engine of the position it was made from
toFEN(st) == fen(st)

\* mutant of withAlteration: the pending side is dropped
withAlteration_dropsPending(this, st, alteration) ==
  ChessPosition(st, alteration, this.turnSide, noPending, FALSE)

\* mutant of withAlteration: the returned flag is carried over
withAlteration_keepsReturned(this, st, alteration) ==
  ChessPosition(st, alteration, this.turnSide, this.pendingSide, this.returned)

withAlteration(this, st, alteration) ==
  ChessPosition(st, alteration, this.turnSide, this.pendingSide, FALSE)

\* object.name: undefined when the object has no property of that name
property(object, name) == IF name \in DOMAIN object THEN object[name] ELSE undefined

\* mutant of liftedPiece: the occupants are read from the fields diff fills in
\* and the colour of the piece is not looked at
liftedPiece_anySide(st, change) ==
  IF change.before = null THEN null
  ELSE IF change.after # null THEN null
  ELSE change.before

\* liftedPiece(change): reads change.from and change.to.  The changes diff
\* builds have the fields square, before and after, so both read undefined:
\* undefined === null is false, undefined !== null is true, and null is returned
\* for every change of a diff.
liftedPiece(st, change) ==
  IF property(change, "from") = null THEN null
  ELSE IF property(change, "to") # null THEN null
  ELSE IF color(property(change, "from")) = st.turn THEN property(change, "from")
  ELSE null

\* diff.map((change) => ({ piece: change.from, square: change.square })): on the
\* changes of diff change.from is undefined
targetsOf(d) ==
  [k \in DOMAIN d |-> [piece |-> property(d[k], "from"), square |-> d[k].square]]

\* for (const move of legalMoves) if (move.after.split(' ')[0] === text): the
\* index of the first such move, 0 if the loop ends without one
firstMatch(legalMoves, text) ==
  LET hits == {k \in 1 .. Len(legalMoves) : splitFirst(legalMoves[k].after) = text}
  IN IF hits = {} THEN 0 ELSE least(hits)

outcome(position, st, message, engineCalls) ==
  [position |-> position, chess |-> st, log |-> message, calls |-> engineCalls]

\* mutant of pendingReturn: pendingSide is kept
pendingReturn_keepsPending(this, st) ==
  LET st1 == undo(st) IN
  outcome(ChessPosition(st1, noAlteration,
                        [color |-> this.pendingSide.color, legalMoves |-> moves(st1)],
                        this.pendingSide, TRUE),
          st1, "pending side return detected, no alteration", <<"undo">>)

\* mutant of pendingReturn: the position is rebuilt but chess.undo() is left out
pendingReturn_noUndo(this, st) ==
  LET st1 == undo(st) IN
  outcome(ChessPosition(st1, noAlteration,
                        [color |-> this.pendingSide.color, legalMoves |-> moves(st1)],
                        noPending, TRUE),
          st, "pending side return detected, no alteration", <<"undo">>)

\* mutant of pendingReturn: the legal moves are not recomputed after the undo
pendingReturn_staleMoves(this, st) ==
  LET st1 == undo(st) IN
  outcome(ChessPosition(st1, noAlteration,
                        [color |-> this.pendingSide.color,
                         legalMoves |-> this.turnSide.legalMoves],
                        noPending, TRUE),
          st1, "pending side return detected, no alteration", <<"undo">>)

\* mutant of pendingReturn: two moves are taken back
pendingReturn_undoesTwo(this, st) ==
  LET st1 == undo(undo(st)) IN
  outcome(ChessPosition(st1, noAlteration,
                        [color |-> this.pendingSide.color, legalMoves |-> moves(st1)],
                        noPending, TRUE),
          st1, "pending side return detected, no alteration", <<"undo">>)

\* mutant of pendingReturn: pendingSide is set to the move now last in the history
pendingReturn_chainsPending(this, st) ==
  LET st1 == undo(st) IN
  outcome(ChessPosition(st1, noAlteration,
                        [color |-> this.pendingSide.color, legalMoves |-> moves(st1)],
                        IF st1.history = <<>> THEN noPending
                        ELSE [color |-> swapColor(st1.turn),
                              returnPlacement |-> st1.history[Len(st1.history)].board,
                              legalMoves |-> moves(undo(st1))],
                        TRUE),
          st1, "pending side return detected, no alteration", <<"undo">>)

\* next, branch `pending side return detected`
pendingReturn(this, st) ==
  LET st1 == undo(st) IN
  outcome(ChessPosition(st1, noAlteration,
                        [color |-> this.pendingSide.color, legalMoves |-> moves(st1)],
                        noPending, TRUE),
          st1, "pending side return detected, no alteration", <<"undo">>)

\* mutant of pendingLegalMove: pendingSide is cleared
pendingLegalMove_clearsPending(this, st, m) ==
  LET st1 == undo(st)
      st2 == move(st1, m)
  IN outcome(ChessPosition(st2, noAlteration,
                           [color |-> st2.turn, legalMoves |-> moves(st2)],
                           noPending, FALSE),
             st2, "pending side legal move detected, no alteration",
             <<"undo", "move">>)

\* mutant of pendingLegalMove: the alternative move is made without the undo
pendingLegalMove_noUndo(this, st, m) ==
  IF ~isLegal(st, m)
  THEN outcome(this, st, "Error: Invalid move", <<>>)
  ELSE LET st2 == move(st, m) IN
       outcome(ChessPosition(st2, noAlteration,
                             [color |-> st2.turn, legalMoves |-> moves(st2)],
                             this.pendingSide, FALSE),
               st2, "pending side legal move detected, no alteration", <<"move">>)

\* mutant of pendingLegalMove: after the undo the move taken back is applied again
pendingLegalMove_reapplies(this, st, m) ==
  LET st1 == undo(st) IN
  IF ~isLegal(st1, m)
  THEN outcome(this, st1, "Error: Invalid move", <<"undo">>)
  ELSE outcome(ChessPosition(st, noAlteration,
                             [color |-> st.turn, legalMoves |-> moves(st)],
                             this.pendingSide, FALSE),
               st, "pending side legal move detected, no alteration",
               <<"undo", "move">>)

\* next, branch `pending side legal move detected`
pendingLegalMove(this, st, m) ==
  LET st1 == undo(st) IN
  IF ~isLegal(st1, m)
  THEN outcome(this, st1, "Error: Invalid move", <<"undo">>)
  ELSE LET st2 == move(st1, m) IN
       outcome(ChessPosition(st2, noAlteration,
                             [color |-> st2.turn, legalMoves |-> moves(st2)],
                             this.pendingSide, FALSE),
               st2, "pending side legal move detected, no alteration",
               <<"undo", "move">>)

\* mutant of legalMove: pendingSide records the placement after the move
legalMove_returnsToNew(this, st, m) ==
  LET st1 == move(st, m) IN
  outcome(ChessPosition(st1, noAlteration,
                        [color |-> st1.turn, legalMoves |-> moves(st1)],
                        [color |-> this.turnSide.color,
                         returnPlacement |-> st1.board,
                         legalMoves |-> this.turnSide.legalMoves],
                        FALSE),
          st1, "legal move detected, no alteration", <<"move">>)

\* mutant of legalMove: pendingSide names the side to move after the move
legalMove_pendingToMove(this, st, m) ==
  LET st1 == move(st, m) IN
  outcome(ChessPosition(st1, noAlteration,
                        [color |-> st1.turn, legalMoves |-> moves(st1)],
                        [color |-> st1.turn,
                         returnPlacement |-> this.placement,
                         legalMoves |-> this.turnSide.legalMoves],
                        FALSE),
          st1, "legal move detected, no alteration", <<"move">>)

\* mutant of legalMove: the move is made on an engine of the new position's own
legalMove_onCopy(this, st, m) ==
  LET st1 == move(st, m) IN
  outcome(ChessPosition(st1, noAlteration,
                        [color |-> st1.turn, legalMoves |-> moves(st1)],
                        [color |-> this.turnSide.color,
                         returnPlacement |-> this.placement,
                         legalMoves |-> this.turnSide.legalMoves],
                        FALSE),
          st, "legal move detected, no alteration", <<"move">>)

\* next, branch `legal move detected`
legalMove(this, st, m) ==
  IF ~isLegal(st, m)
  THEN outcome(this, st, "Error: Invalid move", <<>>)
  ELSE LET st1 == move(st, m) IN
       outcome(ChessPosition(st1, noAlteration,
                             [color |-> st1.turn, legalMoves |-> moves(st1)],
                             [color |-> this.turnSide.color,
                              returnPlacement |-> this.placement,
                              legalMoves |-> this.turnSide.legalMoves],
                             FALSE),
               st1, "legal move detected, no alteration", <<"move">>)

\* next, the single-change branch
singleChange(this, st, change) ==
  LET piece == liftedPiece(st, change) IN
  IF piece = null
  THEN outcome(withAlteration(this, st,
                              errors(<<[piece |-> property(change, "from"),
                                        square |-> change.square]>>)),
               st, "registering error for single change", <<>>)
  ELSE outcome(withAlteration(this, st, lifted(piece, change.square)),
               st, "registering lifted piece", <<>>)

\* mutant of multiChange: the turn side's legal moves are tried before the pending
\* side's
multiChange_freshFirst(this, st, placement, d) ==
  LET text == toFen(placement)
      hasPending == this.pendingSide # noPending
      kp == IF hasPending THEN firstMatch(this.pendingSide.legalMoves, text) ELSE 0
      kt == firstMatch(this.turnSide.legalMoves, text)
  IN IF hasPending /\ equals(placement, this.pendingSide.returnPlacement)
     THEN pendingReturn(this, st)
     ELSE IF kt # 0 THEN legalMove(this, st, this.turnSide.legalMoves[kt])
     ELSE IF kp # 0 THEN pendingLegalMove(this, st, this.pendingSide.legalMoves[kp])
     ELSE outcome(withAlteration(this, st, errors(targetsOf(d))),
                  st, "registering errors", <<>>)

\* next, the branches for a diff of two or more squares
multiChange(this, st, placement, d) ==
  LET text == toFen(placement)
      hasPending == this.pendingSide # noPending
      kp == IF hasPending THEN firstMatch(this.pendingSide.legalMoves, text) ELSE 0
      kt == firstMatch(this.turnSide.legalMoves, text)
  IN IF hasPending /\ equals(placement, this.pendingSide.returnPlacement)
     THEN pendingReturn(this, st)
     ELSE IF kp # 0 THEN pendingLegalMove(this, st, this.pendingSide.legalMoves[kp])
     ELSE IF kt # 0 THEN legalMove(this, st, this.turnSide.legalMoves[kt])
     ELSE outcome(withAlteration(this, st, errors(targetsOf(d))),
                  st, "registering errors", <<>>)

\* mutant of clearing: pendingSide is dropped with the alteration
clearing_dropsPending(this, st) ==
  outcome(ChessPosition(st, noAlteration, this.turnSide, noPending, FALSE),
          st, "clearing alteration", <<>>)

\* next, branch `clearing alteration`
clearing(this, st) ==
  outcome(withAlteration(this, st, noAlteration), st, "clearing alteration", <<>>)

\* mutant of noChanges: a new position is built instead of returning this
noChanges_rebuilds(this, st) ==
  outcome(withAlteration(this, st, noAlteration), st, "no changes detected", <<>>)

\* next, branch `no changes detected`: return this
noChanges(this, st) == outcome(this, st, "no changes detected", <<>>)

\* mutant of next: from a position with an alteration a reading of two or more
\* changed squares is not tried as a move
next_settlesFirst(this, st, placement) ==
  LET d == diff(this.placement, placement) IN
  IF this.alteration # noAlteration /\ Len(d) = 0 THEN clearing(this, st)
  ELSE IF Len(d) = 0 THEN noChanges(this, st)
  ELSE IF Len(d) = 1 THEN singleChange(this, st, d[1])
  ELSE IF this.alteration # noAlteration
  THEN outcome(withAlteration(this, st, errors(targetsOf(d))),
               st, "registering errors", <<>>)
  ELSE multiChange(this, st, placement, d)

\* ChessPosition.next(placement), on the position `this` over the engine `st`
next(this, st, placement) ==
  LET d == diff(this.placement, placement) IN
  IF this.alteration # noAlteration /\ Len(d) = 0 THEN clearing(this, st)
  ELSE IF Len(d) = 0 THEN noChanges(this, st)
  ELSE IF Len(d) = 1 THEN singleChange(this, st, d[1])
  ELSE multiChange(this, st, placement, d)


(***************************************************************************)
(* The board readings fed to next: the last accepted placement, or the      *)
(* pending side's return placement, changed by one hand action.             *)
(***************************************************************************)
fileIndex(letter) ==
  CHOOSE f \in 0 .. 7 : (<<"a", "b", "c", "d", "e", "f", "g", "h">>)[f + 1] = letter

\* Square.fromAlgebraic, for the squares the model names
sq(letter, rankNumber) == fromCoords(rankNumber - 1, fileIndex(letter)).index

\* char.charCodeAt(0), for the characters the model writes notations with
charCodeAt(char) ==
  CASE char = "a" -> 97 [] char = "b" -> 98 [] char = "c" -> 99 [] char = "d" -> 100
    [] char = "e" -> 101 [] char = "f" -> 102 [] char = "g" -> 103 [] char = "h" -> 104
    [] char = "i" -> 105 [] char = "_" -> 95 [] char = "A" -> 65 [] char = "x" -> 120
    [] char = "0" -> 48 [] char = "1" -> 49 [] char = "2" -> 50 [] char = "3" -> 51
    [] char = "4" -> 52 [] char = "5" -> 53 [] char = "6" -> 54 [] char = "7" -> 55
    [] char = "8" -> 56 [] char = "9" -> 57

\* mutant of fromAlgebraic: the length of the notation is not checked
fromAlgebraic_anyLength(notation) ==
  IF Len(notation) < 2 THEN SquareError
  ELSE LET file == charCodeAt(notation[1]) - charCodeAt("a") IN
       IF file < 0 \/ file > 7 THEN SquareError
       ELSE IF notation[2] \notin DecimalDigits THEN SquareError
       ELSE IF parseInt(notation[2]) - 1 < 0 \/ parseInt(notation[2]) - 1 > 7
            THEN SquareError
       ELSE fromCoords(parseInt(notation[2]) - 1, file)

\* Square.fromAlgebraic: Number.isNaN(rank) holds exactly when the rank character
\* is no decimal digit
fromAlgebraic(notation) ==
  IF Len(notation) # 2 THEN SquareError
  ELSE LET file == charCodeAt(notation[1]) - charCodeAt("a") IN
       IF file < 0 \/ file > 7 THEN SquareError
       ELSE IF notation[2] \notin DecimalDigits THEN SquareError
       ELSE IF parseInt(notation[2]) - 1 < 0 \/ parseInt(notation[2]) - 1 > 7
            THEN SquareError
       ELSE fromCoords(parseInt(notation[2]) - 1, file)

\* Square.tryFromAlgebraic
tryFromAlgebraic(notation) ==
  IF Len(notation) # 2 THEN noSquareValue
  ELSE LET file == charCodeAt(notation[1]) - charCodeAt("a") IN
       IF file < 0 \/ file > 7 THEN noSquareValue
       ELSE IF notation[2] \notin DecimalDigits THEN noSquareValue
       ELSE IF parseInt(notation[2]) - 1 < 0 \/ parseInt(notation[2]) - 1 > 7
            THEN noSquareValue
       ELSE tryFromCoords(parseInt(notation[2]) - 1, file)

\* a piece carried from one square to another (nothing happens on an empty square)
carry(placement, step) ==
  IF placement[step[1]] = null THEN placement
  ELSE withPieceAtIndex(withPieceAtIndex(placement, step[2], placement[step[1]]),
                        step[1], null)

RECURSIVE byHand(_, _, _)
byHand(placement, steps, k) ==
  IF k > Len(steps) THEN placement
  ELSE byHand(carry(placement, steps[k]), steps, k + 1)

\* the hand moves tried for each half-move of the game
Script(ply) ==
  CASE ply = 1 -> {<< <<sq("e", 2), sq("e", 3)>> >>, << <<sq("e", 2), sq("e", 4)>> >>}
    [] ply = 2 -> {<< <<sq("e", 7), sq("e", 5)>> >>, << <<sq("d", 7), sq("d", 5)>> >>}
    [] ply = 3 -> {<< <<sq("g", 1), sq("f", 3)>> >>, << <<sq("e", 4), sq("d", 5)>> >>}
    [] ply = 4 -> {<< <<sq("b", 8), sq("c", 6)>> >>}
    [] ply = 5 -> {<< <<sq("f", 1), sq("c", 4)>> >>}
    [] ply = 6 -> {<< <<sq("g", 8), sq("f", 6)>> >>}
    [] ply = 7 -> {<< <<sq("h", 1), sq("f", 1)>> >>,
                   << <<sq("e", 1), sq("g", 1)>>, <<sq("h", 1), sq("f", 1)>> >>}
    [] ply = 8 -> {<< <<sq("f", 8), sq("c", 5)>> >>}
    [] OTHER -> {}

LiftSquares == {sq("e", 2), sq("e", 4), sq("e", 7)}

Puts == {<<sq("a", 3), "P">>, <<sq("d", 1), "N">>}

(***************************************************************************)
(* ChessGame: the session wrapper.                                          *)
(***************************************************************************)
\* new ChessGame()
newChessGame ==
  [gameState |-> [type |-> "setting-up", placement |-> empty],
   onChangeCallback |-> null]

\* get state()
state(this) == this.gameState

\* mutant of onStateChange: a callback already registered is kept
onStateChange_keepsFirst(this, callback) ==
  IF this.onChangeCallback # null THEN this
  ELSE [this EXCEPT !.onChangeCallback = callback]

\* onStateChange(callback)
onStateChange(this, callback) == [this EXCEPT !.onChangeCallback = callback]

\* mutant of updateState: the callback runs before the assignment
updateState_callbackFirst(this, newState) ==
  [game |-> [this EXCEPT !.gameState = newState],
   invoked |-> IF this.onChangeCallback # null
               THEN <<[callback |-> this.onChangeCallback, newState |-> newState,
                       state |-> state(this)]>>
               ELSE <<>>]

\* updateState(newState): assign, then call the registered callback with the
\* new state; `invoked` lists the calls made, each with what the state getter
\* returns while the callback runs
updateState(this, newState) ==
  [game |-> [this EXCEPT !.gameState = newState],
   invoked |-> IF this.onChangeCallback # null
               THEN <<[callback |-> this.onChangeCallback, newState |-> newState,
                       state |-> state([this EXCEPT !.gameState = newState])]>>
               ELSE <<>>]

\* mutant of updatePlacement: the state is not looked at
updatePlacement_noGuard(this, placement) ==
  updateState(this, [type |-> "setting-up", placement |-> placement])

\* updatePlacement(placement)
updatePlacement(this, placement) ==
  IF this.gameState.type = "setting-up"
  THEN updateState(this, [type |-> "setting-up", placement |-> placement])
  ELSE [game |-> this, invoked |-> <<>>]

(***************************************************************************)
(* The state machine: one position, replaced by each call of next.          *)
(***************************************************************************)
Init ==
  /\ chess = newChess
  /\ pos = initial
  /\ receiver = initial
  /\ log = "initial"
  /\ calls = <<>>
  /\ observed = starting
  /\ game = newChessGame
  /\ lastCall = [op |-> "constructor"]
  /\ notified = <<>>
  /\ built = parsed(empty)
  /\ source = [kind |-> "empty"]
  /\ printed = [done |-> FALSE]
  /\ held = <<empty>>
  /\ answer = [op |-> "none"]

\* position = position.next(placement)
Observe(placement) ==
  \E r \in {next(pos, chess, placement)} :
  /\ pos' = r.position
  /\ receiver' = pos
  /\ chess' = r.chess
  /\ log' = r.log
  /\ calls' = r.calls
  /\ observed' = placement
  /\ UNCHANGED <<game, lastCall, notified, built, source, printed, held, answer>>

Unchanged == Observe(pos.placement)

LiftPiece == \E s \in LiftSquares : Observe(withPieceAtIndex(pos.placement, s, null))

PutPiece == \E p \in Puts : Observe(withPieceAtIndex(pos.placement, p[1], p[2]))

RemoveQueens ==
  Observe(withPieceAtIndex(withPieceAtIndex(pos.placement, sq("d", 1), null),
                           sq("d", 8), null))

HandMove ==
  /\ Len(chess.history) < MaxPly
  /\ \E h \in Script(Len(chess.history) + 1) : Observe(byHand(pos.placement, h, 1))

TakeBack ==
  /\ pos.pendingSide # noPending
  /\ Observe(pos.pendingSide.returnPlacement)

OtherMove ==
  /\ pos.pendingSide # noPending
  /\ \E h \in Script(Len(chess.history)) :
       Observe(byHand(pos.pendingSide.returnPlacement, h, 1))

Next ==
  \/ Unchanged
  \/ LiftPiece
  \/ PutPiece
  \/ RemoveQueens
  \/ HandMove
  \/ TakeBack
  \/ OtherMove

Spec == Init /\ [][Next]_vars

(***************************************************************************)
(* The same readings, and one more: with no pending side, the placement the *)
(* board had before the move that is last in the engine's history.          *)
(***************************************************************************)
TakeBackFurther ==
  /\ pos.pendingSide = noPending
  /\ chess.history # <<>>
  /\ Observe(chess.history[Len(chess.history)].board)

FurtherNext ==
  \/ Next
  \/ TakeBackFurther

FurtherSpec == Init /\ [][FurtherNext]_vars

(***************************************************************************)
(* One game played by hand to the point where white castles: 1. e4 (or e3)  *)
(* e5 (or d5) 2. Nf3 (or exd5) Nc6 3. Bc4 Nf6, then the rook alone to f1 or  *)
(* king and rook together, with take-backs and second thoughts on the way.  *)
(***************************************************************************)
LinePly == 8

ScriptedMove ==
  /\ Len(chess.history) < LinePly
  /\ \E h \in Script(Len(chess.history) + 1) : Observe(byHand(pos.placement, h, 1))

\* the king follows the rook that was put on f1 first
KingFollows ==
  /\ pos.placement[sq("e", 1)] = "K"
  /\ pos.placement[sq("f", 1)] = "R"
  /\ pos.placement[sq("g", 1)] = null
  /\ pos.placement[sq("h", 1)] = null
  /\ Observe(carry(pos.placement, <<sq("e", 1), sq("g", 1)>>))

CastlingNext ==
  \/ ScriptedMove
  \/ KingFollows
  \/ TakeBack
  \/ OtherMove

CastlingSpec == Init /\ [][CastlingNext]_vars

(***************************************************************************)
(* next as a function of a position built by the caller: the constructor of *)
(* ChessPosition is public, so turnSide and pendingSide can be any values.   *)
(* The positions below stand over an engine one or two half-moves into the   *)
(* game; their turnSide and pendingSide are the genuine ones or overlap.     *)
(***************************************************************************)
\* the placement a verbose move results in, read from its `after` FEN
resulting(m) == fromFen(firstPart(m.after)).pieces

\* the engine after the hand move `steps` is made from st
played(st, steps) ==
  move(st, CHOOSE m \in {moves(st)[k] : k \in 1 .. Len(moves(st))} :
             resulting(m) = byHand(st.board, steps, 1))

\* the engines one and two half-moves into the game
Engines ==
  LET first == {played(newChess, h) : h \in Script(1)}
  IN first \cup {played(st, h) : st \in first, h \in Script(2)}

\* how many moves of each list serve as overlapping return placements and readings
Picks == 2

\* the pending side a position over st genuinely has after a fresh move
genuinePending(st) ==
  [color |-> undo(st).turn,
   returnPlacement |-> undo(st).board,
   legalMoves |-> moves(undo(st))]

\* pending sides handed to the constructor: the genuine one, and ones whose
\* return placement is also the result of a turn-side or pending-side legal move
PendingSides(st) ==
  {genuinePending(st)}
    \cup {[genuinePending(st) EXCEPT !.returnPlacement = resulting(moves(st)[k])] :
            k \in 1 .. Picks}
    \cup {[genuinePending(st) EXCEPT !.returnPlacement = resulting(moves(undo(st))[k])] :
            k \in 1 .. Picks}

\* turn sides handed to the constructor: the fresh one, and one whose list is the
\* pending side's, so that a reading matches a move of both lists
TurnSides(st) ==
  {[color |-> st.turn, legalMoves |-> moves(st)],
   [color |-> st.turn, legalMoves |-> moves(undo(st))]}

PrecedenceInit ==
  /\ chess \in Engines
  /\ \E t \in TurnSides(chess), ps \in PendingSides(chess) :
       pos = ChessPosition(chess, noAlteration, t, ps, FALSE)
  /\ receiver = pos
  /\ log = "constructed"
  /\ calls = <<>>
  /\ observed = pos.placement
  /\ game = newChessGame
  /\ lastCall = [op |-> "constructor"]
  /\ notified = <<>>
  /\ built = parsed(empty)
  /\ source = [kind |-> "empty"]
  /\ printed = [done |-> FALSE]
  /\ held = <<empty>>
  /\ answer = [op |-> "none"]

\* the readings tried on a built position: its return placement, the results of
\* the first moves of both lists, and a placement nothing explains
Readings(position) ==
  {position.pendingSide.returnPlacement}
    \cup {resulting(position.pendingSide.legalMoves[k]) : k \in 1 .. Picks}
    \cup {resulting(position.turnSide.legalMoves[k]) : k \in 1 .. Picks}
    \cup {withPieceAtIndex(withPieceAtIndex(position.placement, sq("d", 1), null),
                           sq("d", 8), null)}

\* position.next(placement), once, on the built position
Present ==
  /\ log = "constructed"
  /\ \E placement \in Readings(pos) : Observe(placement)

PrecedenceNext == Present

PrecedenceSpec == PrecedenceInit /\ [][PrecedenceNext]_vars

(***************************************************************************)
(* The session: placements edited and observers registered by the client.   *)
(***************************************************************************)
\* the placements the client edits in
Edits == {empty, starting, withPieceAtIndex(empty, sq("e", 1), "K")}

\* the callbacks the client registers
Callbacks == {"first", "second"}

UpdatePlacement ==
  /\ Len(notified) < MaxNotified
  /\ \E placement \in Edits :
       \E r \in {updatePlacement(game, placement)} :
         /\ game' = r.game
         /\ lastCall' = [op |-> "updatePlacement", placement |-> placement]
         /\ notified' = notified \o r.invoked
  /\ UNCHANGED <<chess, pos, receiver, log, calls, observed, built, source, printed,
                 held, answer>>

OnStateChange ==
  /\ \E callback \in Callbacks :
       /\ game' = onStateChange(game, callback)
       /\ lastCall' = [op |-> "onStateChange", callback |-> callback]
  /\ UNCHANGED <<chess, pos, receiver, log, calls, observed, notified,
                 built, source, printed, held, answer>>

SessionNext ==
  \/ UpdatePlacement
  \/ OnStateChange

SessionSpec == Init /\ [][SessionNext]_vars

\* the client keeps calling the session
SessionLive == SessionSpec /\ WF_vars(SessionNext)

\* a session in the other state ChessGameState declares, {type: 'in-progress',
\* position}.  No operation of ChessGame builds it; it is the private field
\* gameState holding a value of its declared type, here the initial position
inProgressGame ==
  [gameState |-> [type |-> "in-progress", position |-> initial],
   onChangeCallback |-> null]

\* the sessions the client calls: a new one, and one that is in progress
Sessions == {newChessGame, inProgressGame}

EitherInit ==
  /\ chess = newChess
  /\ pos = initial
  /\ receiver = initial
  /\ log = "initial"
  /\ calls = <<>>
  /\ observed = starting
  /\ game \in Sessions
  /\ lastCall = [op |-> "constructor"]
  /\ notified = <<>>
  /\ built = parsed(empty)
  /\ source = [kind |-> "empty"]
  /\ printed = [done |-> FALSE]
  /\ held = <<empty>>
  /\ answer = [op |-> "none"]

\* the session's operations called on either session
EitherSpec == EitherInit /\ [][SessionNext]_vars

(***************************************************************************)
(* PiecesPlacement values: parsed from FEN text, built square by square,    *)
(* and printed as FEN text.                                                 *)
(***************************************************************************)
\* the texts of one rank: well formed, split runs of empty squares, nine and
\* seven squares, a letter that is no piece, a digit out of range
RankTexts ==
  {<<"8">>, <<"4", "4">>, <<"K", "7">>, <<"3", "p", "4">>,
   <<"p", "p", "p", "p", "p", "p", "p", "p", "p">>,
   <<"p", "p", "p", "p", "p", "p", "p">>,
   <<"x", "7">>, <<"9">>}

\* '8/8/8/8/8/8/8'
sevenRanks == <<"8", "/", "8", "/", "8", "/", "8", "/", "8", "/", "8", "/", "8">>

\* texts of another shape: empty, blank, seven and nine ranks, a ninth rank that
\* is empty, an eighth rank that is empty, a rank digit 0, the starting
\* placement with blanks around it and further fields after it, and eight empty
\* ranks with a tab before them, a tab and a field after them, a line end after
\* them, a vertical tab and a field after them, a no-break space before and an
\* ideographic space after them, the starting placement with a byte order mark
\* before it and a line separator and a field after it, and eight empty ranks
\* followed by an accented letter, which is no white space
ShapeTexts ==
  {<<>>, <<" ">>, sevenRanks, sevenRanks \o <<"/", "8", "/", "8">>,
   sevenRanks \o <<"/", "8", "/">>, sevenRanks \o <<"/">>,
   sevenRanks \o <<"/", "0", "8">>,
   <<" ">> \o toFen(starting) \o <<" ">>,
   toFen(starting) \o <<" ", "w", " ", "K", "Q", "k", "q", " ", "-", " ", "0", " ", "1">>,
   sevenRanks \o <<" ", "w", " ", "-", " ", "-", " ", "0", " ", "1">>,
   <<"\t">> \o sevenRanks \o <<"/", "8">>,
   sevenRanks \o <<"/", "8", "\t", "w">>,
   sevenRanks \o <<"/", "8", "\r", "\n">>,
   sevenRanks \o <<"/", "8", verticalTab, "w">>,
   <<"U+00A0">> \o sevenRanks \o <<"/", "8", "U+3000">>,
   <<"U+FEFF">> \o toFen(starting) \o <<"U+2028", "w">>,
   sevenRanks \o <<"/", "8", "U+00E9", "w">>}

\* the texts handed to fromFen: eight ranks, the first two and the last one
\* varying, and the texts of another shape
FenTexts ==
  {join(<<r1, r2, <<"8">>, <<"8">>, <<"8">>, <<"8">>, <<"8">>, r8>>) :
     r1 \in RankTexts, r2 \in RankTexts, r8 \in {<<"8">>, <<"R", "3", "K", "2", "R">>}}
    \cup ShapeTexts

EditSquares == {sq("a", 8), sq("h", 1)}

EditPieces == {null, "K"}

\* the limits handed to diff; 64 is the default
Limits == {0, 1, 2, 64}

\* the run of withPieceAt edits is capped at this many
MaxEdits == 2

\* PiecesPlacement.fromFen(text), the first thing the client does
FromFenOf(texts) ==
  /\ source.kind = "empty"
  /\ \E text \in texts :
       \E r \in {fromFen(text)} :
         /\ built' = r
         /\ source' = [kind |-> "fromFen", text |-> text]
         /\ held' = IF r.ok THEN <<r.pieces>> ELSE <<>>
  /\ printed' = [done |-> FALSE]
  /\ answer' = [op |-> "none"]
  /\ UNCHANGED <<chess, pos, receiver, log, calls, observed, game, lastCall, notified>>

FromFen == FromFenOf(FenTexts)

StartingPlacement ==
  /\ built' = parsed(starting)
  /\ source' = [kind |-> "starting"]
  /\ held' = <<starting>>
  /\ printed' = [done |-> FALSE]
  /\ answer' = [op |-> "none"]
  /\ UNCHANGED <<chess, pos, receiver, log, calls, observed, game, lastCall, notified>>

WithPieceAt ==
  /\ built.ok
  /\ IF source.kind = "withPieceAt" THEN source.edits < MaxEdits ELSE TRUE
  /\ \E square \in EditSquares, piece \in EditPieces :
       \E objects \in {withPieceAtIn(held, Len(held), square, piece)} :
         /\ held' = objects
         /\ built' = parsed(objects[Len(objects)])
         /\ source' = [kind |-> "withPieceAt", square |-> square, piece |-> piece,
                       edits |-> IF source.kind = "withPieceAt"
                                 THEN source.edits + 1 ELSE 1]
  /\ printed' = [done |-> FALSE]
  /\ answer' = [op |-> "none"]
  /\ UNCHANGED <<chess, pos, receiver, log, calls, observed, game, lastCall, notified>>

ToFen ==
  /\ built.ok
  /\ printed' = [done |-> TRUE, text |-> toFen(built.pieces)]
  /\ answer' = [op |-> "none"]
  /\ UNCHANGED <<chess, pos, receiver, log, calls, observed, game, lastCall, notified,
                 built, source, held>>

\* the placements the one built last is compared with: itself, the first one of
\* the chain it was built from, and the starting placement
Others == {built.pieces, held[1], starting}

\* built.diff(other, limit)
Diff ==
  /\ built.ok
  /\ \E other \in Others, limit \in Limits :
       answer' = [op |-> "diff", this |-> built.pieces, other |-> other,
                  limit |-> limit, result |-> diffLimit(built.pieces, other, limit)]
  /\ printed' = [done |-> FALSE]
  /\ UNCHANGED <<chess, pos, receiver, log, calls, observed, game, lastCall, notified,
                 built, source, held>>

\* built.equals(other)
Equals ==
  /\ built.ok
  /\ \E other \in Others :
       answer' = [op |-> "equals", this |-> built.pieces, other |-> other,
                  result |-> equals(built.pieces, other)]
  /\ printed' = [done |-> FALSE]
  /\ UNCHANGED <<chess, pos, receiver, log, calls, observed, game, lastCall, notified,
                 built, source, held>>


\* built.isStarting()
IsStarting ==
  /\ built.ok
  /\ \E r \in {isStarting(built.pieces)} :
       /\ answer' = [op |-> "isStarting", this |-> built.pieces, result |-> r.result]
       /\ log' = IF r.written THEN r.line ELSE log
  /\ printed' = [done |-> FALSE]
  /\ UNCHANGED <<chess, pos, receiver, calls, observed, game, lastCall, notified,
                 built, source, held>>

\* built.isEmpty()
IsEmpty ==
  /\ built.ok
  /\ answer' = [op |-> "isEmpty", this |-> built.pieces, result |-> isEmpty(built.pieces)]
  /\ printed' = [done |-> FALSE]
  /\ UNCHANGED <<chess, pos, receiver, log, calls, observed, game, lastCall, notified,
                 built, source, held>>

PlacementNext ==
  \/ FromFen
  \/ StartingPlacement
  \/ WithPieceAt
  \/ ToFen
  \/ Diff
  \/ Equals
  \/ IsStarting
  \/ IsEmpty

PlacementSpec == Init /\ [][PlacementNext]_vars

(***************************************************************************)
(* fromFen on texts with every white space character, and with characters   *)
(* next to them in Unicode that are none.                                   *)
(***************************************************************************)
\* the hexadecimal digits
Hex == {"0", "1", "2", "3", "4", "5", "6", "7", "8", "9", "A", "B", "C", "D", "E", "F"}

\* the characters put into the texts: the ASCII control characters and the
\* blank that separate fields, U+0085 next line, U+00A0
\* no-break space, U+00E9 e with acute, U+1680 ogham space mark, U+180E
\* mongolian vowel separator, U+2000 to U+200F (the spaces of several widths,
\* the zero width space, joiners and marks), U+2028 to U+202F (line and
\* paragraph separator, the embedding controls, narrow no-break space), U+205F
\* medium mathematical space, U+2060 word joiner, U+3000 ideographic space,
\* U+FEFF byte order mark
TextChars ==
  {" ", "\t", "\n", "\r", "\f", verticalTab, "U+0085", "U+00A0", "U+00E9",
   "U+1680", "U+180E", "U+205F", "U+2060", "U+3000", "U+FEFF"}
    \cup {"U+200" \o d : d \in Hex}
    \cup {"U+202" \o d : d \in {"8", "9", "A", "B", "C", "D", "E", "F"}}

\* for every such character: the starting placement with the character before
\* it, after it, between it and a further field, in a run with a blank and a tab
\* around it; eight empty ranks with the character before the last rank
SpaceTexts ==
  UNION {{<<c>> \o toFen(starting),
          toFen(starting) \o <<c>>,
          toFen(starting) \o <<c, "w">>,
          <<" ", c>> \o toFen(starting) \o <<c, "\t", "b", c>>,
          sevenRanks \o <<c, "/", "8">>} : c \in TextChars}

\* PiecesPlacement.fromFen(text) on these texts and the ones of FenTexts
FromFenSpaced == FromFenOf(FenTexts \cup SpaceTexts)

ParseNext ==
  \/ FromFenSpaced
  \/ ToFen

ParseSpec == Init /\ [][ParseNext]_vars

(***************************************************************************)
(* PiecesPlacement values built through the operations that take a raw      *)
(* index: fillRank and withPieceAtIndex.                                    *)
(***************************************************************************)
\* the rank arguments handed to fillRank
RankIndices == {0, 1, 8}

\* the rows handed to fillRank: the back rank, an empty row, three pieces, nine
Rows ==
  {<<"R", "N", "B", "Q", "K", "B", "N", "R">>,
   <<null, null, null, null, null, null, null, null>>,
   <<"R", "N", "B">>,
   <<"R", "N", "B", "Q", "K", "B", "N", "R", "R">>}

\* the indices handed to withPieceAtIndex: the last square, one past it, one
\* before the first
RawIndices == {63, 64, 0 - 1}

\* the run of edits is capped, as for withPieceAt
EditsLeft ==
  IF source.kind \in {"fillRank", "withPieceAtIndex"} THEN source.edits < MaxEdits ELSE TRUE

EditsDone ==
  IF source.kind \in {"fillRank", "withPieceAtIndex"} THEN source.edits + 1 ELSE 1

\* built = built.fillRank(rankIndex, pieces)
FillRank ==
  /\ built.ok
  /\ EditsLeft
  /\ \E rankIndex \in RankIndices, pieces \in Rows :
       \E r \in {fillRank(held[Len(held)], rankIndex, pieces)} :
         /\ built' = r
         /\ held' = IF r.ok THEN Append(held, r.pieces) ELSE held
         /\ source' = [kind |-> "fillRank", rankIndex |-> rankIndex, pieces |-> pieces,
                       edits |-> EditsDone]
  /\ printed' = [done |-> FALSE]
  /\ answer' = [op |-> "none"]
  /\ UNCHANGED <<chess, pos, receiver, log, calls, observed, game, lastCall, notified>>

\* built = built.withPieceAtIndex(index, piece)
WithPieceAtIndex ==
  /\ built.ok
  /\ EditsLeft
  /\ \E index \in RawIndices, piece \in EditPieces :
       \E objects \in {withPieceAtIn(held, Len(held), index, piece)} :
         /\ held' = objects
         /\ built' = parsed(objects[Len(objects)])
         /\ source' = [kind |-> "withPieceAtIndex", index |-> index, piece |-> piece,
                       edits |-> EditsDone]
  /\ printed' = [done |-> FALSE]
  /\ answer' = [op |-> "none"]
  /\ UNCHANGED <<chess, pos, receiver, log, calls, observed, game, lastCall, notified>>

FillNext ==
  \/ StartingPlacement
  \/ FillRank
  \/ WithPieceAtIndex

FillSpec == Init /\ [][FillNext]_vars

(***************************************************************************)
(* Square: the conversions between index, coordinates and notation.         *)
(***************************************************************************)
\* the indices handed to fromIndex and tryFromIndex
IndexInputs == (0 - 2) .. 65

\* the ranks and files handed to fromCoords and tryFromCoords
CoordInputs == (0 - 1) .. 8

\* the characters notations are written with
NotationChars == {"a", "h", "i", "_", "A", "x", "0", "1", "8", "9"}

\* the notations handed to fromAlgebraic and tryFromAlgebraic: every text of up
\* to three of these characters.  Each call below is made on a fresh start: no
\* conversion depends on the calls made before it.
Notations == UNION {[1 .. n -> NotationChars] : n \in 0 .. 3}

FromIndex ==
  /\ answer.op = "none"
  /\ \E index \in IndexInputs :
       answer' = [op |-> "fromIndex", index |-> index, result |-> fromIndex(index)]
  /\ UNCHANGED <<chess, pos, receiver, log, calls, observed, game, lastCall, notified,
                 built, source, printed, held>>

TryFromIndex ==
  /\ answer.op = "none"
  /\ \E index \in IndexInputs :
       answer' = [op |-> "tryFromIndex", index |-> index, result |-> tryFromIndex(index)]
  /\ UNCHANGED <<chess, pos, receiver, log, calls, observed, game, lastCall, notified,
                 built, source, printed, held>>

FromCoords ==
  /\ answer.op = "none"
  /\ \E rank \in CoordInputs, file \in CoordInputs :
       answer' = [op |-> "fromCoords", rank |-> rank, file |-> file,
                  result |-> fromCoords(rank, file)]
  /\ UNCHANGED <<chess, pos, receiver, log, calls, observed, game, lastCall, notified,
                 built, source, printed, held>>

TryFromCoords ==
  /\ answer.op = "none"
  /\ \E rank \in CoordInputs, file \in CoordInputs :
       answer' = [op |-> "tryFromCoords", rank |-> rank, file |-> file,
                  result |-> tryFromCoords(rank, file)]
  /\ UNCHANGED <<chess, pos, receiver, log, calls, observed, game, lastCall, notified,
                 built, source, printed, held>>

\* Square.ALL[index].algebraic()
Algebraic ==
  /\ answer.op = "none"
  /\ \E index \in Indices :
       answer' = [op |-> "algebraic", index |-> index, result |-> algebraic(index)]
  /\ UNCHANGED <<chess, pos, receiver, log, calls, observed, game, lastCall, notified,
                 built, source, printed, held>>

FromAlgebraic ==
  /\ answer.op = "none"
  /\ \E notation \in Notations :
       answer' = [op |-> "fromAlgebraic", notation |-> notation,
                  result |-> fromAlgebraic(notation)]
  /\ UNCHANGED <<chess, pos, receiver, log, calls, observed, game, lastCall, notified,
                 built, source, printed, held>>

TryFromAlgebraic ==
  /\ answer.op = "none"
  /\ \E notation \in Notations :
       answer' = [op |-> "tryFromAlgebraic", notation |-> notation,
                  result |-> tryFromAlgebraic(notation)]
  /\ UNCHANGED <<chess, pos, receiver, log, calls, observed, game, lastCall, notified,
                 built, source, printed, held>>

SquareNext ==
  \/ FromIndex
  \/ TryFromIndex
  \/ FromCoords
  \/ TryFromCoords
  \/ Algebraic
  \/ FromAlgebraic
  \/ TryFromAlgebraic

SquareSpec == Init /\ [][SquareNext]_vars

(***************************************************************************)
(* gameEnding: positions built over engines at or near the end of a game.   *)
(***************************************************************************)
\* a board with the given pieces, each a pair of square and symbol
setUp(pieces) ==
  [i \in Indices |->
     IF \E p \in pieces : p[1] = i THEN (CHOOSE p \in pieces : p[1] = i)[2] ELSE null]

\* new Chess(fen), for a FEN without castling rights and en passant square
loaded(board, turn, halfMoves) ==
  [board |-> board, turn |-> turn, castling |-> {}, epSquare |-> noSquare,
   halfMoves |-> halfMoves, moveNumber |-> 1, history |-> <<>>]

\* boards of few pieces: king and bishop stalemating a king in the corner, king
\* and queen doing the same, a back-rank mate, bare kings, a knight, a rook,
\* bishops on squares of one colour and of both colours
FewPieces ==
  {<<setUp({<<sq("a", 8), "k">>, <<sq("c", 7), "B">>, <<sq("b", 6), "K">>}), "b">>,
   <<setUp({<<sq("a", 8), "k">>, <<sq("b", 6), "Q">>, <<sq("c", 1), "K">>}), "b">>,
   <<setUp({<<sq("g", 8), "k">>, <<sq("f", 7), "p">>, <<sq("g", 7), "p">>,
            <<sq("h", 7), "p">>, <<sq("e", 8), "R">>, <<sq("g", 1), "K">>}), "b">>,
   <<setUp({<<sq("a", 8), "k">>, <<sq("a", 1), "K">>}), "w">>,
   <<setUp({<<sq("a", 8), "k">>, <<sq("a", 1), "K">>, <<sq("c", 1), "N">>}), "w">>,
   <<setUp({<<sq("a", 8), "k">>, <<sq("a", 1), "K">>, <<sq("c", 1), "R">>}), "w">>,
   <<setUp({<<sq("a", 8), "k">>, <<sq("a", 1), "K">>, <<sq("c", 1), "B">>,
            <<sq("g", 1), "b">>}), "w">>,
   <<setUp({<<sq("a", 8), "k">>, <<sq("a", 1), "K">>, <<sq("c", 1), "B">>,
            <<sq("f", 1), "b">>}), "w">>}

\* the half-move clocks the engines are loaded with: a fresh one, one move short
\* of the fifty-move rule, at it, and eight moves short of it
Clocks == {0, 92, 99, 100}

\* the engines positions are built over: loaded with a board of few pieces, or
\* with the starting board
Endgames ==
  {loaded(b[1], b[2], c) : b \in FewPieces, c \in {0, 99, 100}}
    \cup {[newChess EXCEPT !.halfMoves = c] : c \in Clocks}

\* an engine loaded with few pieces is played this many moves at most
FreePly == 1

\* the lines played from the starting board: the knights going out and back
\* twice, and the shortest mate
Lines ==
  {<< <<sq("g", 1), sq("f", 3)>>, <<sq("g", 8), sq("f", 6)>>,
      <<sq("f", 3), sq("g", 1)>>, <<sq("f", 6), sq("g", 8)>>,
      <<sq("g", 1), sq("f", 3)>>, <<sq("g", 8), sq("f", 6)>>,
      <<sq("f", 3), sq("g", 1)>>, <<sq("f", 6), sq("g", 8)>> >>,
   << <<sq("f", 2), sq("f", 3)>>, <<sq("e", 7), sq("e", 5)>>,
      <<sq("g", 2), sq("g", 4)>>, <<sq("d", 8), sq("h", 4)>> >>}

\* the moves played on: those of a line from the starting board, any legal move
\* of an engine loaded with few pieces
playedOn(st, m) ==
  IF (IF st.history = <<>> THEN st.board ELSE st.history[1].board) = starting
  THEN \E line \in Lines :
         /\ Len(st.history) < Len(line)
         /\ \A k \in 1 .. Len(st.history) :
              <<st.history[k].move.from, st.history[k].move.to>> = line[k]
         /\ <<m.from, m.to>> = line[Len(st.history) + 1]
  ELSE Len(st.history) < FreePly

\* new ChessPosition(chess, null, {color, legalMoves}, null) over the engine
positionOver(st) ==
  ChessPosition(st, noAlteration, [color |-> st.turn, legalMoves |-> moves(st)],
                noPending, FALSE)

EndingInit ==
  /\ chess \in Endgames
  /\ pos = positionOver(chess)
  /\ receiver = pos
  /\ log = "constructed"
  /\ calls = <<>>
  /\ observed = pos.placement
  /\ game = newChessGame
  /\ lastCall = [op |-> "constructor"]
  /\ notified = <<>>
  /\ built = parsed(empty)
  /\ source = [kind |-> "empty"]
  /\ printed = [done |-> FALSE]
  /\ held = <<empty>>
  /\ answer = [op |-> "none"]

\* chess.move(m), and a position built over the engine
PlayMove ==
  /\ \E legal \in {moves(chess)} :
       \E k \in DOMAIN legal :
         /\ playedOn(chess, legal[k])
         /\ \E st \in {move(chess, legal[k])} :
              /\ chess' = st
              /\ pos' = positionOver(st)
              /\ receiver' = positionOver(st)
              /\ observed' = st.board
  /\ log' = "constructed"
  /\ calls' = <<>>
  /\ answer' = [op |-> "none"]
  /\ UNCHANGED <<game, lastCall, notified, built, source, printed, held>>

\* pos.gameEnding()
GameEnding ==
  /\ answer' = [op |-> "gameEnding", result |-> gameEnding(chess)]
  /\ UNCHANGED <<chess, pos, receiver, log, calls, observed, game, lastCall, notified,
                 built, source, printed, held>>

\* pos.movesHistory()
MovesHistory ==
  /\ answer' = [op |-> "movesHistory", turns |-> movesHistory(chess)]
  /\ UNCHANGED <<chess, pos, receiver, log, calls, observed, game, lastCall, notified,
                 built, source, printed, held>>

EndingNext ==
  \/ PlayMove
  \/ GameEnding
  \/ MovesHistory

EndingSpec == EndingInit /\ [][EndingNext]_vars


(***************************************************************************)
(* Vocabulary of the properties.                                            *)
(***************************************************************************)
\* the squares on which two placements differ
Changed(a, b) == {i \in Indices : a[i] # b[i]}

\* the moves of a list, made from the board `from`, that end in placement p
Explaining(legalMoves, from, p) ==
  {k \in 1 .. Len(legalMoves) : boardAfter(from, legalMoves[k]) = p}

HasPending == pos.pendingSide # noPending

\* the reading is the pending side's return placement or the result of one of
\* its legal moves
PendingResolves(p) ==
  /\ HasPending
  /\ \/ p = pos.pendingSide.returnPlacement
     \/ Explaining(pos.pendingSide.legalMoves, pos.pendingSide.returnPlacement, p) # {}

front(history) == SubSeq(history, 1, Len(history) - 1)

last(history) == history[Len(history)]

\* the engine's position, without its history
live(st) == [board |-> st.board, turn |-> st.turn, castling |-> st.castling,
             epSquare |-> st.epSquare]

MoveDetected ==
  log \in {"legal move detected, no alteration",
           "pending side legal move detected, no alteration"}

(***************************************************************************)
(* Properties of next.                                                      *)
(***************************************************************************)
C1_Step ==
  LET p == observed'
      hits == Explaining(pos.turnSide.legalMoves, chess.board, p)
  IN (Cardinality(Changed(pos.placement, p)) >= 2 /\ ~PendingResolves(p) /\ hits # {})
     => LET m == pos.turnSide.legalMoves[least(hits)] IN
        /\ calls' = <<"move">>
        /\ front(chess'.history) = chess.history
        /\ last(chess'.history).move = m
        /\ chess'.board = boardAfter(chess.board, m)
        /\ chess'.turn # chess.turn
        /\ pos'.placement = p
        /\ pos'.turnSide = [color |-> chess'.turn, legalMoves |-> moves(chess')]
        /\ pos'.pendingSide = [color |-> chess.turn,
                               returnPlacement |-> pos.placement,
                               legalMoves |-> pos.turnSide.legalMoves]

\* C1: a reading that differs in two or more squares, that no pending-move
\* resolution explains and that is the result of a move of turnSide.legalMoves
\* makes next apply the first such move to the engine (one move, no undo) and
\* return placement = the reading, turnSide = the engine's turn and legal moves
\* after the move, pendingSide = {mover, placement before, the list searched}.
C1_FreshLegalMove == [][C1_Step]_vars

C1_Witness ==
  /\ log = "legal move detected, no alteration"
  /\ Len(chess.history) = 2
  /\ pos.pendingSide.color = "b"
  /\ pos.placement = observed

C2_Step ==
  LET p == observed' IN
  (HasPending /\ Cardinality(Changed(pos.placement, p)) >= 2
     /\ p = pos.pendingSide.returnPlacement)
  => /\ calls' = <<"undo">>
     /\ chess'.history = front(chess.history)
     /\ live(chess') = live(last(chess.history))
     /\ pos'.placement = pos.pendingSide.returnPlacement
     /\ pos'.turnSide = [color |-> pos.pendingSide.color, legalMoves |-> moves(chess')]
     /\ pos'.pendingSide = noPending
     /\ pos'.alteration = noAlteration

\* C2: with pendingSide set, a reading (two or more squares changed) equal to
\* pendingSide.returnPlacement makes next undo exactly the engine's last move and
\* return placement = returnPlacement, turnSide = {pendingSide.color, the legal
\* moves after the undo}, pendingSide absent and no alteration.
C2_PendingCancellation == [][C2_Step]_vars

C2_Witness ==
  /\ log = "pending side return detected, no alteration"
  /\ calls = <<"undo">>
  /\ Len(chess.history) = 1
  /\ pos.pendingSide = noPending
  /\ pos.turnSide.color = "b"

C3_Step ==
  LET p == observed'
      hits == Explaining(pos.pendingSide.legalMoves, pos.pendingSide.returnPlacement, p)
  IN (HasPending /\ Cardinality(Changed(pos.placement, p)) >= 2
        /\ p # pos.pendingSide.returnPlacement /\ hits # {})
     => LET m == pos.pendingSide.legalMoves[least(hits)] IN
        /\ calls' = <<"undo", "move">>
        /\ Len(chess'.history) = Len(chess.history)
        /\ front(chess'.history) = front(chess.history)
        /\ last(chess'.history).move = m
        /\ last(chess'.history).move # last(chess.history).move
        /\ chess'.board = p
        /\ pos'.turnSide = [color |-> chess'.turn, legalMoves |-> moves(chess')]
        /\ pos'.pendingSide = pos.pendingSide

\* C3: with pendingSide set, a reading (two or more squares changed) that is not
\* the return placement but the result of a move of pendingSide.legalMoves makes
\* next undo the applied move and apply that move instead (history keeps its
\* length, its last entry is replaced), set turnSide to the engine's turn and
\* legal moves, and keep pendingSide as it was.
C3_PendingAlternative == [][C3_Step]_vars

C3_Witness ==
  /\ log = "pending side legal move detected, no alteration"
  /\ calls = <<"undo", "move">>
  /\ Len(chess.history) = 2
  /\ pos.pendingSide.color = "b"
  /\ pos.placement = observed


\* the one changed square of a single-square reading
only(S) == CHOOSE i \in S : TRUE

\* the squares a list of changes or targets names
Listed(changes) == {changes[k].square : k \in 1 .. Len(changes)}

\* the target carries the occupant its square had: that piece, or no piece for a
\* square that was empty
Carries(target, occupant) ==
  IF occupant = null THEN target.piece \in {null, undefined}
  ELSE target.piece = occupant

\* the reading takes a piece of the side to move off square i
IsLift(p, i) ==
  /\ pos.placement[i] # null
  /\ p[i] = null
  /\ pieceColor(pos.placement[i]) = pos.turnSide.color

C4_Step ==
  LET p == observed'
      d == Changed(pos.placement, p)
  IN (Cardinality(d) = 1 /\ IsLift(p, only(d)))
     => pos'.alteration = lifted(pos.placement[only(d)], only(d))

\* C4: a reading that differs in exactly one square, which held a piece of the
\* side to move and is empty now, yields Lifted{piece, square} with the removed
\* piece and the vacated square.
C4_LiftClassification == [][C4_Step]_vars

C5_Step ==
  LET p == observed'
      d == Changed(pos.placement, p)
  IN (Cardinality(d) = 1 /\ ~IsLift(p, only(d)))
     => /\ pos'.alteration.type = "errors"
        /\ Len(pos'.alteration.targets) = 1
        /\ pos'.alteration.targets[1].square = only(d)
        /\ Carries(pos'.alteration.targets[1], pos.placement[only(d)])

\* C5: a reading that differs in exactly one square and is not a lift of a piece
\* of the side to move yields Errors with exactly one target: that square, with
\* the occupant it had before the change (absent if it was empty).
C5_SingleChangeError == [][C5_Step]_vars

C6_Step ==
  LET p == observed'
      d == Changed(pos.placement, p)
  IN (Cardinality(d) >= 2 /\ ~PendingResolves(p)
        /\ Explaining(pos.turnSide.legalMoves, chess.board, p) = {})
     => /\ pos'.alteration.type = "errors"
        /\ Len(pos'.alteration.targets) = Cardinality(d)
        /\ Listed(pos'.alteration.targets) = d
        /\ \A k \in DOMAIN pos'.alteration.targets :
             Carries(pos'.alteration.targets[k],
                     pos.placement[pos'.alteration.targets[k].square])

\* C6: a reading that differs in two or more squares and is neither the return
\* placement nor the result of a pendingSide or turnSide legal move yields Errors
\* with exactly one target per changed square, each with the occupant the square
\* had before the change.
C6_UnexplainableDiff == [][C6_Step]_vars

C7_Step ==
  (pos.alteration # noAlteration /\ observed' = pos.placement)
  => /\ pos'.alteration = noAlteration
     /\ pos'.placement = pos.placement
     /\ pos'.turnSide = pos.turnSide
     /\ pos'.pendingSide = pos.pendingSide
     /\ chess' = chess
     /\ calls' = <<>>

\* C7: from a position whose status is Lifted or Errors, a reading equal to the
\* current placement yields status Ready with placement, turnSide and pendingSide
\* unchanged and no engine mutation.
C7_SelfResolution == [][C7_Step]_vars

C7_Witness ==
  /\ log = "clearing alteration"
  /\ pos.alteration = noAlteration
  /\ HasPending
  /\ observed = pos.placement

C8_Step ==
  (pos.alteration = noAlteration /\ observed' = pos.placement)
  => /\ pos' = pos
     /\ chess' = chess
     /\ calls' = <<>>

\* C8: with status Ready, a reading equal to the current placement returns the
\* very same position value and performs no move or undo on the engine.
C8_IdempotentNoOp == [][C8_Step]_vars

C8_Witness ==
  /\ log = "no changes detected"
  /\ pos.returned
  /\ pos.alteration = noAlteration
  /\ observed = pos.placement

\* C9: after initial() and any sequence of next calls on the latest position, the
\* position's placement is the piece placement of the engine's live position.
C9_LockStep == pos.placement = chess.board

C9_Witness ==
  /\ log = "pending side return detected, no alteration"
  /\ Len(chess.history) = 2
  /\ pos.placement = chess.board

\* the status a position reports: its alteration's kind (null when it has none)
statusOf(position) == position.alteration.type

\* C10: a next call that detects a completed move returns a position whose status
\* is distinct from the Ready status of an idle position.
C10_MovedDistinct == MoveDetected => statusOf(pos) # statusOf(initial)

(***************************************************************************)
(* Precedence of the explanations of a diff of two or more squares.         *)
(***************************************************************************)
\* the moves of a list whose resulting placement is p
Matching(legalMoves, p) == {k \in 1 .. Len(legalMoves) : resulting(legalMoves[k]) = p}

C11_Step ==
  LET p == observed'
      pending == pos.pendingSide
      kp == IF HasPending THEN Matching(pending.legalMoves, p) ELSE {}
      kt == Matching(pos.turnSide.legalMoves, p)
  IN Cardinality(Changed(pos.placement, p)) >= 2 =>
       IF HasPending /\ p = pending.returnPlacement
       THEN calls' = <<"undo">> /\ chess'.history = front(chess.history)
       ELSE IF kp # {}
       THEN /\ calls' = <<"undo", "move">>
            /\ front(chess'.history) = front(chess.history)
            /\ sameMove(last(chess'.history).move, pending.legalMoves[least(kp)])
       ELSE IF kt # {}
       THEN /\ calls' = <<"move">>
            /\ front(chess'.history) = chess.history
            /\ sameMove(last(chess'.history).move, pos.turnSide.legalMoves[least(kt)])
       ELSE calls' = <<>> /\ pos'.alteration.type = "errors"

\* C11: for a diff of two or more squares the explanations are tried in the order
\* cancellation, pending alternative, fresh legal move, Errors: a reading equal to
\* the return placement undoes the engine move even if it also matches a legal
\* move of either list, and a reading matching a move of both lists is completed
\* as the pending alternative (undo, then move).
C11_Precedence == [][C11_Step]_vars

\* a reading that is the return placement and the result of a turn-side move was
\* taken as the cancellation, and one matching a move of both lists as the
\* pending alternative
C11_Witness ==
  \/ /\ calls = <<"undo">>
     /\ observed = receiver.pendingSide.returnPlacement
     /\ Matching(receiver.turnSide.legalMoves, observed) # {}
  \/ /\ calls = <<"undo", "move">>
     /\ Matching(receiver.pendingSide.legalMoves, observed) # {}
     /\ Matching(receiver.turnSide.legalMoves, observed) # {}

(***************************************************************************)
(* Errors are values: next never throws on a placement mismatch.            *)
(***************************************************************************)
Placements == [Indices -> Pieces \cup {null}]

C12_Step ==
  /\ log' # "Error: Invalid move"
  /\ pos'.placement \in Placements
  /\ pos'.alteration.type \in {null, "lifted", "errors"}
  /\ (calls' # <<>> /\ calls'[1] = "undo") => chess.history # <<>>
  /\ "move" \in {calls'[k] : k \in 1 .. Len(calls')} =>
       /\ chess'.history # <<>>
       /\ isLegal(IF calls'[1] = "undo" THEN undo(chess) ELSE chess,
                  last(chess'.history).move)

\* C12: on every position reached by next from initial() and every reading, next
\* returns a position value, a mismatch showing only as the Errors status; every
\* undo it issues finds a move to take back and every move it issues is legal in
\* the engine's position at that moment.
C12_NeverThrows == [][C12_Step]_vars

\* a reading nothing explains, on a position with a pending side: both lists of
\* legal moves were tried and the mismatch came back as the Errors value
C12_Witness ==
  /\ receiver.pendingSide # noPending
  /\ Cardinality(Changed(receiver.placement, observed)) >= 2
  /\ pos.alteration.type = "errors"
  /\ calls = <<>>

(***************************************************************************)
(* Frame of the outcomes that detect no move.                               *)
(***************************************************************************)
C13_Step ==
  (pos'.alteration # noAlteration \/ observed' = pos.placement) =>
    /\ calls' = <<>>
    /\ chess' = chess
    /\ pos'.placement = pos.placement
    /\ pos'.turnSide = pos.turnSide
    /\ pos'.pendingSide = pos.pendingSide

\* C13: a next call whose outcome is Lifted, Errors, the clearing of a status or
\* a no-op issues no move and no undo, and returns a position with the placement,
\* turnSide and pendingSide of the position it was called on.
C13_Frame == [][C13_Step]_vars

\* a piece taken off the board while a pending side is recorded: Errors for the
\* one square, pending side kept
C13_Witness ==
  /\ pos.alteration.type = "errors"
  /\ Len(pos.alteration.targets) = 1
  /\ receiver.pendingSide # noPending
  /\ pos.pendingSide = receiver.pendingSide
  /\ calls = <<>>

(***************************************************************************)
(* initial().                                                               *)
(***************************************************************************)
\* 'rnbqkbnr/pppppppp/8/8/8/8/PPPPPPPP/RNBQKBNR w KQkq - 0 1'
STARTING_FEN ==
  << "r", "n", "b", "q", "k", "b", "n", "r", "/", "p", "p", "p", "p", "p",
     "p", "p", "p", "/", "8", "/", "8", "/", "8", "/", "8", "/", "P", "P",
     "P", "P", "P", "P", "P", "P", "/", "R", "N", "B", "Q", "K", "B", "N",
     "R", " ", "w", " ", "K", "Q", "k", "q", " ", "-", " ", "0", " ", "1" >>

\* C14: initial() is a position over an engine at the standard starting position
\* with nothing played, whose placement is the starting placement, whose turnSide
\* is white with the legal moves of the start, with no status and no pendingSide.
C14_Initial ==
  log = "initial" =>
    /\ fen(chess) = STARTING_FEN
    /\ chess.history = <<>>
    /\ pos.placement = starting
    /\ pos.turnSide.color = "w"
    /\ pos.turnSide.legalMoves = moves(chess)
    /\ Len(pos.turnSide.legalMoves) = 20
    /\ pos.alteration = noAlteration
    /\ pos.pendingSide = noPending

\* the position right after initial(), with the twenty moves of the start
C14_Witness ==
  /\ log = "initial"
  /\ {pos.turnSide.legalMoves[k].piece : k \in 1 .. 20} = {"p", "n"}
  /\ pos.placement[sq("e", 1)] = "K"

(***************************************************************************)
(* turnSide is the engine's side to move with its legal moves.              *)
(***************************************************************************)
\* C15: on every position reached by next from initial(), turnSide.color is the
\* engine's side to move and turnSide.legalMoves is the engine's list of legal
\* moves in its current position.
C15_TurnSideFresh ==
  /\ pos.turnSide.color = chess.turn
  /\ pos.turnSide.legalMoves = moves(chess)

\* a black move taken back: black is to move again, with black's moves
C15_Witness ==
  /\ calls = <<"undo">>
  /\ pos.turnSide.color = "b"
  /\ receiver.turnSide.color = "w"
  /\ pos.turnSide.legalMoves # receiver.turnSide.legalMoves

(***************************************************************************)
(* The session wrapper.                                                     *)
(***************************************************************************)
C16_Step ==
  lastCall'.op = "updatePlacement" =>
    IF game.gameState.type = "setting-up"
    THEN game'.gameState = [type |-> "setting-up", placement |-> lastCall'.placement]
    ELSE game'.gameState = game.gameState /\ notified' = notified

\* C16: updatePlacement stores the placement it is given while the state is
\* SettingUp; in any other state it leaves the state as it is and does not call
\* the observer.
C16_UpdatePlacement == [][C16_Step]_vars

\* a session in progress with an observer registered: updatePlacement was called
\* with the starting placement, the state is the one it was and the observer
\* was never called
C16_Witness ==
  /\ lastCall = [op |-> "updatePlacement", placement |-> starting]
  /\ game.gameState = inProgressGame.gameState
  /\ game.onChangeCallback # null
  /\ notified = <<>>

C17_Step ==
  /\ game'.gameState # game.gameState =>
       IF game.onChangeCallback # null
       THEN notified' =
              Append(notified, [callback |-> game.onChangeCallback,
                                newState |-> game'.gameState,
                                state |-> game'.gameState])
       ELSE notified' = notified
  /\ notified' # notified => lastCall'.op = "updatePlacement"

\* C17: a state change calls the registered observer exactly once, before the
\* operation returns, with the new state, the state getter returning that new
\* state during the call; with no observer registered the state changes all the
\* same.  Nothing but a state-changing operation calls the observer.
C17_ObserverCalled == [][C17_Step]_vars

\* the observer was called with the state the session now has, after a change
\* made while no observer was registered
C17_Witness ==
  /\ Len(notified) = 1
  /\ notified[1].newState = game.gameState
  /\ notified[1].state = game.gameState
  /\ notified[1].callback = game.onChangeCallback
  /\ game.gameState.placement = starting

\* C18: the session starts in SettingUp with the empty placement and moves on to
\* InProgress.
C18_ReachesInProgress ==
  /\ (lastCall.op = "constructor" =>
        game.gameState = [type |-> "setting-up", placement |-> empty])
  /\ <>(game.gameState.type = "in-progress")

(***************************************************************************)
(* FEN round trips.                                                         *)
(***************************************************************************)
\* C19: every placement got from fromFen, empty(), starting() or withPieceAt is
\* given back by fromFen(toFen(p)): the parse succeeds and equals(p) holds.
C19_PlacementRoundTrip ==
  built.ok =>
    /\ fromFen(toFen(built.pieces)).ok
    /\ equals(fromFen(toFen(built.pieces)).pieces, built.pieces)
    /\ fromFen(toFen(built.pieces)).pieces = built.pieces

\* a placement parsed from text with ranks of nine and seven squares, then edited
C19_Witness ==
  /\ source.kind = "withPieceAt"
  /\ built.ok
  /\ built.pieces[sq("a", 8)] = "K"
  /\ built.pieces[sq("b", 8)] = "p"
  /\ built.pieces[sq("h", 7)] = "p"
  /\ built.pieces[sq("a", 6)] = null
  /\ built.pieces[sq("e", 1)] = "K"

\* C20: for every piece-placement string s that fromFen accepts,
\* toFen(fromFen(s)) is s, character for character.
C20_TextRoundTrip ==
  (source.kind = "fromFen" /\ built.ok /\ printed.done) => printed.text = source.text

(***************************************************************************)
(* fromFen: the texts it rejects and the texts it accepts.                  *)
(***************************************************************************)
\* the number of ranks a piece-placement field is written in
rankCount(field) == 1 + Cardinality({i \in 1 .. Len(field) : field[i] = "/"})

\* the number of squares a text describes from its i-th character on: a digit
\* 1..8 stands for that many squares, a piece letter for one
RECURSIVE squareCount(_, _)
squareCount(text, i) ==
  IF i > Len(text) THEN 0
  ELSE (IF text[i] \in Digits THEN parseInt(text[i])
        ELSE IF text[i] \in Pieces THEN 1 ELSE 0) + squareCount(text, i + 1)

\* only piece letters, digits 1..8 and rank separators
Recognized(field) == \A i \in 1 .. Len(field) : field[i] \in Pieces \cup Digits \cup {"/"}

\* the digits of the code points U+2000 to U+200A
Quads == {"0", "1", "2", "3", "4", "5", "6", "7", "8", "9", "A"}

\* white space as ECMAScript lists it: TAB, LF, VT, FF, CR, SP, NBSP, ZWNBSP, the
\* line and paragraph separators and the space separators of Unicode
Spaces ==
  {"\t", "\n", verticalTab, "\f", "\r", " ", "U+00A0", "U+FEFF", "U+2028", "U+2029",
   "U+1680", "U+202F", "U+205F", "U+3000"} \cup {"U+200" \o d : d \in Quads}

\* the piece-placement fields of a text: the stretch without white space that
\* has only white space before it and white space, or the end, after it; none
\* when the text is empty or all white space
Fields(text) ==
  {SubSeq(text, from, to) : <<from, to>> \in
     {ft \in (1 .. Len(text)) \X (1 .. Len(text)) :
        /\ ft[1] <= ft[2]
        /\ \A i \in 1 .. ft[1] - 1 : text[i] \in Spaces
        /\ \A i \in ft[1] .. ft[2] : text[i] \notin Spaces
        /\ ft[2] < Len(text) => text[ft[2] + 1] \in Spaces}}

\* C21: fromFen throws, and returns no placement, when the piece-placement field
\* (the text up to the first white space, leading white space skipped) is
\* missing, has a number of ranks other than 8, holds a character that is no
\* piece letter and no digit 1..8, or describes a number of squares other than
\* 64; every other text is accepted, whatever fields follow the first one.
C21_FromFenErrors ==
  source.kind = "fromFen" =>
    /\ built.ok <=>
          \E field \in Fields(source.text) :
            /\ rankCount(field) = 8
            /\ Recognized(field)
            /\ squareCount(field, 1) = 64
    /\ ~built.ok => built = ParseError /\ held = <<>>

\* eight ranks of recognized characters describing 65 squares: rejected
C21_Witness ==
  /\ source.kind = "fromFen"
  /\ ~built.ok
  /\ \E field \in Fields(source.text) :
       /\ rankCount(field) = 8
       /\ Recognized(field)
       /\ squareCount(field, 1) = 65

\* C22: every text fromFen accepts has each of its 8 rank strings describing
\* exactly 8 squares.
C22_RanksOfEight ==
  (source.kind = "fromFen" /\ built.ok) =>
    \A k \in 1 .. 8 : squareCount(split(firstPart(source.text), "/")[k], 1) = 8

(***************************************************************************)
(* diff and equals.                                                         *)
(***************************************************************************)
\* the smaller of two numbers
min(a, b) == IF a < b THEN a ELSE b

\* C23: diff(other, limit) lists, in ascending square index, one change
\* {square, before = the occupant in this, after = the occupant in other} for
\* each of the first `limit` squares whose occupants differ, and nothing else: its
\* length is min(limit, number of differing squares), and with the default limit
\* of 64 it is the complete difference.
C23_Diff ==
  answer.op = "diff" =>
    /\ Len(answer.result) = min(answer.limit, Cardinality(Changed(answer.this, answer.other)))
    /\ Listed(answer.result) \subseteq Changed(answer.this, answer.other)
    /\ \A k \in 1 .. Len(answer.result) :
         /\ answer.result[k].before = answer.this[answer.result[k].square]
         /\ answer.result[k].after = answer.other[answer.result[k].square]
         /\ k > 1 => answer.result[k - 1].square < answer.result[k].square
    /\ \A i \in Changed(answer.this, answer.other) \ Listed(answer.result) :
         \A j \in Listed(answer.result) : j < i
    /\ answer.limit = 64 =>
         Listed(answer.result) = Changed(answer.this, answer.other)

\* a difference cut short: more than two squares differ and two are listed
C23_Witness ==
  /\ answer.op = "diff"
  /\ answer.limit = 2
  /\ Cardinality(Changed(answer.this, answer.other)) > 2
  /\ Len(answer.result) = 2
  /\ answer.result[1].before # answer.result[1].after

\* C24: diff(p, p) is empty; equals(a, b) holds exactly when diff(a, b, 1) is
\* empty, which is exactly when all 64 squares have the same occupant; equals is
\* reflexive and symmetric.
C24_Equals ==
  answer.op \in {"diff", "equals"} =>
    /\ diff(answer.this, answer.this) = <<>>
    /\ diff(answer.other, answer.other) = <<>>
    /\ equals(answer.this, answer.other)
          <=> diffLimit(answer.this, answer.other, 1) = <<>>
    /\ equals(answer.this, answer.other)
          <=> \A i \in Indices : answer.this[i] = answer.other[i]
    /\ equals(answer.this, answer.this)
    /\ equals(answer.this, answer.other) <=> equals(answer.other, answer.this)
    /\ answer.op = "equals" =>
         (answer.result <=> \A i \in Indices : answer.this[i] = answer.other[i])

\* two placements built apart that are equal: a piece put on a square and taken
\* off again, compared with the placement the chain started from
C24_Witness ==
  /\ answer.op = "equals"
  /\ answer.result
  /\ Len(held) = 3
  /\ answer.this = held[3]
  /\ answer.other = held[1]
  /\ held[2] # held[1]

(***************************************************************************)
(* withPieceAt: copy on write.                                              *)
(***************************************************************************)
C25_Step ==
  (source'.kind = "withPieceAt" /\ held' # held) =>
    /\ Len(held') = Len(held) + 1
    /\ \A k \in 1 .. Len(held) : held'[k] = held[k]
    /\ DOMAIN held'[Len(held')] = Indices
    /\ held'[Len(held')][source'.square] = source'.piece
    /\ \A i \in Indices \ {source'.square} :
         held'[Len(held')][i] = held[Len(held)][i]

\* C25: withPieceAt(square, occupant) returns a new placement with the given
\* occupant on that square and the occupants of the original on the other 63
\* squares; the original, and every earlier placement of the chain, is unchanged.
C25_CopyOnWrite == [][C25_Step]_vars

\* a chain of two updates: three placements held, no two of them alike
C25_Witness ==
  /\ source.kind = "withPieceAt"
  /\ source.edits = 2
  /\ Len(held) = 3
  /\ held[1] # held[2]
  /\ held[2] # held[3]
  /\ held[1] # held[3]
  /\ held[3][source.square] = source.piece

(***************************************************************************)
(* The operations that take a raw index.                                    *)
(***************************************************************************)
\* C26: every placement obtainable through empty, starting, fromFen,
\* withPieceAt, withPieceAtIndex and fillRank, with any arguments they accept
\* without throwing, holds exactly 64 slots.
C26_Length == \A k \in 1 .. Len(held) : length(held[k]) = 64

\* C27: fillRank(r, row) with r in 1..8 and a row of 8 occupants sets the squares
\* a<r>..h<r>, in file order, to the row, and leaves the other ranks as they were
\* in the original; a row of another length is rejected with an error.
C27_RankFill ==
  source.kind = "fillRank" =>
    IF Len(source.pieces) # 8 THEN ~built.ok
    ELSE source.rankIndex \in 1 .. 8 =>
           /\ built.ok
           /\ \A i \in Indices :
                held[Len(held)][i] =
                  IF rankOf(i) + 1 = source.rankIndex
                  THEN source.pieces[fileOf(i) + 1]
                  ELSE held[Len(held) - 1][i]

(***************************************************************************)
(* Square.                                                                  *)
(***************************************************************************)
\* the value a rejected call gives: an error, or null from a try variant
Rejected(op) ==
  IF op \in {"tryFromIndex", "tryFromCoords", "tryFromAlgebraic"}
  THEN [kind |-> "null"] ELSE [kind |-> "error"]

\* C28: fromCoords(rank, file), for rank and file in 0..7, is the square of index
\* (7 - rank) * 8 + file; fromIndex(i), for i in 0..63, is the square of rank
\* 7 - floor(i / 8) and file i mod 8; each undoes the other (a8 = 0, h8 = 7,
\* d5 = 27, e4 = 36, a1 = 56, h1 = 63); values out of range are rejected, with an
\* error by fromIndex and fromCoords and with null by the try variants.
C28_Coordinates ==
  /\ answer.op \in {"fromCoords", "tryFromCoords"} =>
       IF answer.rank \in 0 .. 7 /\ answer.file \in 0 .. 7
       THEN /\ answer.result.kind = "square"
            /\ answer.result.index = (7 - answer.rank) * 8 + answer.file
            /\ answer.result.index \in 0 .. 63
            /\ rankOf(answer.result.index) = answer.rank
            /\ fileOf(answer.result.index) = answer.file
            /\ fromIndex(answer.result.index) = answer.result
            /\ <<answer.rank, answer.file>> = <<7, 0>> => answer.result.index = 0
            /\ <<answer.rank, answer.file>> = <<7, 7>> => answer.result.index = 7
            /\ <<answer.rank, answer.file>> = <<4, 3>> => answer.result.index = 27
            /\ <<answer.rank, answer.file>> = <<3, 4>> => answer.result.index = 36
            /\ <<answer.rank, answer.file>> = <<0, 0>> => answer.result.index = 56
            /\ <<answer.rank, answer.file>> = <<0, 7>> => answer.result.index = 63
       ELSE answer.result = Rejected(answer.op)
  /\ answer.op \in {"fromIndex", "tryFromIndex"} =>
       IF answer.index \in 0 .. 63
       THEN /\ answer.result.kind = "square"
            /\ answer.result.index = answer.index
            /\ rankOf(answer.result.index) = 7 - (answer.index \div 8)
            /\ fileOf(answer.result.index) = answer.index % 8
            /\ rankOf(answer.result.index) \in 0 .. 7
            /\ fileOf(answer.result.index) \in 0 .. 7
            /\ fromCoords(rankOf(answer.result.index), fileOf(answer.result.index))
                 = answer.result
       ELSE answer.result = Rejected(answer.op)

\* d5 asked for by its coordinates
C28_Witness ==
  /\ answer.op = "fromCoords"
  /\ answer.rank = 4
  /\ answer.file = 3
  /\ answer.result = squareAt(27)
  /\ algebraic(answer.result.index) = <<"d", "5">>

\* one file letter a..h followed by one rank digit 1..8
WellWritten(notation) ==
  /\ Len(notation) = 2
  /\ notation[1] \in {"a", "b", "c", "d", "e", "f", "g", "h"}
  /\ notation[2] \in {"1", "2", "3", "4", "5", "6", "7", "8"}

\* C29: for every square s, fromAlgebraic(s.algebraic()) is s; every text that
\* is not one file letter a..h followed by one rank digit 1..8 is rejected, with
\* an error by fromAlgebraic and with null by tryFromAlgebraic.
C29_Algebraic ==
  /\ answer.op = "algebraic" =>
       /\ WellWritten(answer.result)
       /\ fromAlgebraic(answer.result) = squareAt(answer.index)
       /\ tryFromAlgebraic(answer.result) = squareAt(answer.index)
  /\ answer.op \in {"fromAlgebraic", "tryFromAlgebraic"} =>
       IF WellWritten(answer.notation)
       THEN /\ answer.result.kind = "square"
            /\ algebraic(answer.result.index) = answer.notation
       ELSE answer.result = Rejected(answer.op)

\* an upper-case file letter is rejected
C29_Witness ==
  /\ answer.op = "fromAlgebraic"
  /\ answer.notation = <<"A", "1">>
  /\ answer.result = SquareError

(***************************************************************************)
(* gameEnding.                                                              *)
(***************************************************************************)
\* the endings in the order gameEnding asks the engine for them
ENDINGS ==
  <<"checkmate", "stalemate", "insufficient_material", "threefold_repetition",
    "50move_rule">>

\* what the engine affirms of its position, in that order
Affirmed(st) ==
  <<isCheckmate(st), isStalemate(st), isInsufficientMaterial(st),
    isThreefoldRepetition(st), isDrawByFiftyMoves(st)>>

C30_Step ==
  (answer'.op = "gameEnding" /\ answer' # answer) =>
    /\ chess' = chess
    /\ pos' = pos
    /\ \E affirmed \in {Affirmed(chess)} :
         IF \E k \in 1 .. 5 : affirmed[k]
         THEN \E k \in 1 .. 5 :
                /\ affirmed[k]
                /\ \A j \in 1 .. k - 1 : ~affirmed[j]
                /\ answer'.result = ENDINGS[k]
         ELSE answer'.result = null

\* C30: gameEnding() reports the first ending the engine affirms, in the order
\* checkmate, stalemate, insufficient material, threefold repetition, fifty-move
\* rule, and null exactly when the engine affirms none; the engine and the
\* position are left as they were.
C30_GameEnding == [][C30_Step]_vars

\* a stalemate with king and bishop against king: the engine affirms stalemate
\* and insufficient material, and stalemate is reported
C30_Witness ==
  /\ answer.op = "gameEnding"
  /\ answer.result = "stalemate"
  /\ isInsufficientMaterial(chess)
  /\ chess.board[sq("c", 7)] = "B"

(***************************************************************************)
(* movesHistory.                                                            *)
(***************************************************************************)
\* C31: movesHistory() pairs the n half-moves of the engine's history into
\* ceil(n/2) turns in order: turn j (counted from 1) has white = the san of
\* half-move 2j-1 and black = the san of half-move 2j, black being null only in
\* the last turn and only when n is odd; an empty history gives no turns.
C31_MovesHistory ==
  answer.op = "movesHistory" =>
    \E n \in {Len(chess.history)} :
      /\ Len(answer.turns) = (n + 1) \div 2
      /\ \A j \in 1 .. Len(answer.turns) :
           /\ answer.turns[j].white = san(chess.history[2 * j - 1],
                                          chess.history[2 * j - 1].move)
           /\ IF 2 * j <= n
              THEN answer.turns[j].black = san(chess.history[2 * j],
                                               chess.history[2 * j].move)
              ELSE answer.turns[j].black = null /\ j = Len(answer.turns) /\ n % 2 = 1
      /\ (n = 0 => answer.turns = <<>>)

\* three half-moves of the shortest mate: f3 e5, then g4 without a reply
C31_Witness ==
  /\ answer.op = "movesHistory"
  /\ Len(chess.history) = 3
  /\ answer.turns =
       <<[white |-> <<"f", "3">>, black |-> <<"e", "5">>],
         [white |-> <<"g", "4">>, black |-> null]>>

(***************************************************************************)
(* Sequences of next calls.                                                 *)
(***************************************************************************)
\* C32: on every position reached by next from initial(), a set pendingSide
\* means that the engine's history is not empty, that undoing its last move
\* gives the board pendingSide.returnPlacement with pendingSide.color to move
\* and pendingSide.legalMoves as the legal moves, and that pendingSide.color is
\* the opposite of turnSide.color.
C32_PendingConsistent ==
  HasPending =>
    /\ chess.history # <<>>
    /\ \E before \in {undo(chess)} :
         /\ before.board = pos.pendingSide.returnPlacement
         /\ before.turn = pos.pendingSide.color
         /\ moves(before) = pos.pendingSide.legalMoves
    /\ pos.pendingSide.color = swapColor(pos.turnSide.color)

\* black's move was replaced by another one, with white's first move behind it
C32_Witness ==
  /\ HasPending
  /\ log = "pending side legal move detected, no alteration"
  /\ Len(chess.history) = 2
  /\ pos.pendingSide.color = "b"
  /\ pos.turnSide.color = "w"
  /\ pos.pendingSide.returnPlacement = chess.history[2].board

\* the change of the history's length that goes with an outcome of next
growth(message) ==
  CASE message = "legal move detected, no alteration" -> 1
    [] message = "pending side return detected, no alteration" -> 0 - 1
    [] OTHER -> 0

C33_Step ==
  /\ Len(chess'.history) = Len(chess.history) + growth(log')
  /\ Len(chess.history) + growth(log') >= 0
  /\ log' \in {"legal move detected, no alteration",
               "pending side return detected, no alteration",
               "pending side legal move detected, no alteration",
               "registering lifted piece", "registering error for single change",
               "registering errors", "clearing alteration", "no changes detected"}

\* C33: over any sequence of next calls the engine's history grows by exactly one
\* move on a fresh legal move, shrinks by exactly one on a pending-move
\* cancellation and keeps its length on every other outcome (alternative
\* completion, Lifted, Errors, clearing, no-op); a cancellation never meets an
\* empty history.
C33_HistoryAccounting == [][C33_Step]_vars

\* a cancellation that took the third half-move back
C33_Witness ==
  /\ log = "pending side return detected, no alteration"
  /\ Len(chess.history) = 2
  /\ receiver.pendingSide # noPending
  /\ receiver.pendingSide.color = "w"
  /\ pos.returned

\* white may castle king side: the engine lists the move
CastlingLegal(legalMoves) ==
  \E k \in 1 .. Len(legalMoves) : legalMoves[k].flags = "k" /\ legalMoves[k].color = "w"

\* the move is the white rook going from h1 to f1
RookStep(m) == m.piece = "r" /\ m.color = "w" /\ m.from = sq("h", 1) /\ m.to = sq("f", 1)

C34_Step ==
  /\ (/\ CastlingLegal(pos.turnSide.legalMoves)
      /\ pos.placement = chess.board
      /\ observed' = carry(pos.placement, <<sq("h", 1), sq("f", 1)>>))
     => /\ log' = "legal move detected, no alteration"
        /\ Len(chess'.history) = Len(chess.history) + 1
        /\ RookStep(last(chess'.history).move)
        /\ pos'.pendingSide # noPending
        /\ CastlingLegal(pos'.pendingSide.legalMoves)
  /\ (/\ HasPending
      /\ CastlingLegal(pos.pendingSide.legalMoves)
      /\ chess.history # <<>>
      /\ RookStep(last(chess.history).move)
      /\ observed' = byHand(pos.pendingSide.returnPlacement,
                            << <<sq("e", 1), sq("g", 1)>>, <<sq("h", 1), sq("f", 1)>> >>, 1))
     => /\ log' = "pending side legal move detected, no alteration"
        /\ Len(chess'.history) = Len(chess.history)
        /\ front(chess'.history) = front(chess.history)
        /\ last(chess'.history).move.flags = "k"
        /\ last(chess'.history).move.piece = "k"
        /\ ~RookStep(last(chess'.history).move)
        /\ chess'.turn = "b"
        /\ pos'.turnSide.color = "b"
        /\ chess'.castling \cap {"K", "Q"} = {}
        /\ pos'.placement = observed'

\* C34: where king-side castling is legal, a reading with the rook alone moved
\* from h1 to f1 records that rook move, and a following reading of the castled
\* placement replaces it through alternative completion: the engine's history
\* then ends with the castling move and not the rook move, is as long as after
\* the first reading, and it is the opponent's turn.
C34_CastlingRookFirst == [][C34_Step]_vars

\* the king has followed the rook: the castling move stands seventh in the
\* history, where the rook move stood
C34_Witness ==
  /\ log = "pending side legal move detected, no alteration"
  /\ Len(chess.history) = 7
  /\ last(chess.history).move.flags = "k"
  /\ receiver.placement[sq("f", 1)] = "R"
  /\ receiver.placement[sq("e", 1)] = "K"
  /\ pos.placement[sq("g", 1)] = "K"
  /\ chess.turn = "b"

\* the position with its alteration taken away: status Ready, all else the same
Ready(position) == [position EXCEPT !.alteration = noAlteration]

C35_Step ==
  observed' # pos.placement =>
    \E r \in {next(Ready(pos), chess, observed')} :
      /\ pos'.placement = r.position.placement
      /\ pos'.alteration = r.position.alteration
      /\ pos'.turnSide = r.position.turnSide
      /\ pos'.pendingSide = r.position.pendingSide
      /\ pos'.returned = r.position.returned
      /\ chess' = r.chess
      /\ calls' = r.calls
      /\ log' = r.log

\* C35: for a reading that differs from the current placement the outcome of
\* next does not depend on the current status: a Lifted or Errors position and
\* the Ready position with the same placement, turnSide, pendingSide and engine
\* give the same placement, status, turnSide, pendingSide and engine calls, so a
\* legal move is recognised directly from a Lifted or Errors position.
C35_StatusIndependent == [][C35_Step]_vars

\* the pawn taken from e2 (Errors for that square) was put on e4: the move is
\* recognised from Errors
C35_Witness ==
  /\ receiver.alteration.type = "errors"
  /\ Listed(receiver.alteration.targets) = {sq("e", 2)}
  /\ log = "legal move detected, no alteration"
  /\ pos.placement[sq("e", 4)] = "P"
  /\ pos.pendingSide.returnPlacement = starting
  /\ chess.turn = "b"

C36_Step ==
  /\ (/\ log = "legal move detected, no alteration"
      /\ observed' = withPieceAtIndex(pos.placement, last(chess.history).move.to, null))
     => /\ Cardinality(Changed(pos.placement, observed')) = 1
        /\ color(pos.placement[last(chess.history).move.to]) # chess.turn
        /\ pos'.alteration.type = "errors"
        /\ Listed(pos'.alteration.targets) = {last(chess.history).move.to}
        /\ Len(pos'.alteration.targets) = 1
        /\ chess' = chess
        /\ calls' = <<>>
        /\ pos'.pendingSide = pos.pendingSide
        /\ pos'.pendingSide # noPending
        /\ pos'.placement = pos.placement
  /\ (/\ log = "registering error for single change"
      /\ HasPending
      /\ observed' = pos.pendingSide.returnPlacement)
     => /\ log' = "pending side return detected, no alteration"
        /\ calls' = <<"undo">>
        /\ chess'.history = front(chess.history)
        /\ chess'.board = observed'
        /\ pos'.placement = observed'
        /\ pos'.alteration = noAlteration
        /\ pos'.pendingSide = noPending

\* C36: after a fresh move, a reading with the moved piece gone from its
\* destination is a change of one square by the side not to move: next yields
\* Errors (not Lifted), leaves the engine alone and keeps pendingSide; the
\* following reading of the placement before the move is recognised as the
\* cancellation and the move is undone.
C36_TakeBackThroughErrors == [][C36_Step]_vars

\* 1. e4 taken back by way of the pawn lifted from e4
C36_Witness ==
  /\ log = "pending side return detected, no alteration"
  /\ receiver.alteration.type = "errors"
  /\ Listed(receiver.alteration.targets) = {sq("e", 4)}
  /\ chess.history = <<>>
  /\ pos.placement = starting

C37_Step ==
  /\ log' = "pending side return detected, no alteration" => pos'.pendingSide = noPending
  /\ (/\ pos.pendingSide = noPending
      /\ chess.history # <<>>
      /\ observed' = last(chess.history).board
      /\ Explaining(pos.turnSide.legalMoves, chess.board, observed') = {})
     => /\ log' = "registering errors"
        /\ pos'.alteration.type = "errors"
        /\ Listed(pos'.alteration.targets) = Changed(pos.placement, observed')
        /\ chess' = chess
        /\ calls' = <<>>
        /\ pos'.placement = pos.placement
        /\ pos'.pendingSide = noPending

\* C37: a pending-move cancellation leaves pendingSide absent, so a following
\* reading equal to the placement before the previous move, which is still
\* applied, is not a cancellation: when no legal move gives that placement next
\* yields Errors and the engine keeps the previous move.
C37_OneLevelTakeBack == [][C37_Step]_vars

\* 1. e4 e5, e5 taken back, then the starting placement read: Errors on e2 and
\* e4, and 1. e4 still in the history
C37_Witness ==
  /\ log = "registering errors"
  /\ receiver.returned
  /\ observed = starting
  /\ Len(chess.history) = 1
  /\ pos.placement[sq("e", 4)] = "P"
  /\ pos.alteration.type = "errors"

\* C38: a position superseded by a next call that moved or undid a move holds
\* the same engine as its successor: after the call its toFEN() gives the
\* successor's position while its placement field is the earlier placement;
\* placement and engine agree for the position returned last only.
C38_EngineShared ==
  calls # <<>> =>
    /\ splitFirst(toFEN(chess)) = toFen(pos.placement)
    /\ splitFirst(toFEN(chess)) # toFen(receiver.placement)
    /\ receiver.placement # pos.placement

\* 1. e4 was taken back: the position that had the pawn on e4 now reports the
\* FEN of the start
C38_Witness ==
  /\ calls = <<"undo">>
  /\ receiver.placement[sq("e", 4)] = "P"
  /\ receiver.placement[sq("e", 2)] = null
  /\ toFEN(chess) = STARTING_FEN
  /\ pos.placement = starting

(***************************************************************************)
(* The observer of a session.                                               *)
(***************************************************************************)
\* the calls of the observer made by the step
Invoked(before, after) == SubSeq(after, Len(before) + 1, Len(after))

C39_Step ==
  /\ lastCall'.op = "onStateChange" /\ lastCall' # lastCall
       => /\ game'.onChangeCallback = lastCall'.callback
          /\ notified' = notified
  /\ ~(lastCall'.op = "onStateChange" /\ lastCall' # lastCall)
       => game'.onChangeCallback = game.onChangeCallback
  /\ \E invoked \in {Invoked(notified, notified')} :
       /\ Len(invoked) <= 1
       /\ \A k \in 1 .. Len(invoked) : invoked[k].callback = game.onChangeCallback
       /\ lastCall.op = "onStateChange"
            => \A k \in 1 .. Len(invoked) : invoked[k].callback = lastCall.callback

\* C39: onStateChange replaces the callback registered before; a state change
\* calls the callback registered last, once, and no callback registered
\* earlier is called again.
C39_SingleObserver == [][C39_Step]_vars

\* `first` was called for one change, then `second` was registered and only it
\* was called for the next two
C39_Witness ==
  /\ Len(notified) = 3
  /\ notified[1].callback = "first"
  /\ notified[2].callback = "second"
  /\ notified[3].callback = "second"
  /\ game.onChangeCallback = "second"

(***************************************************************************)
(* The returned flag.                                                       *)
(***************************************************************************)
C40_Step ==
  /\ log = "initial" => pos = initial /\ ~pos.returned
  /\ log' = "pending side return detected, no alteration" => pos'.returned
  /\ log' \in {"legal move detected, no alteration",
               "pending side legal move detected, no alteration",
               "registering lifted piece", "registering error for single change",
               "registering errors", "clearing alteration"} => ~pos'.returned
  /\ log' = "no changes detected" => pos' = pos /\ pos'.returned = pos.returned

\* C40: returned is true on the position a pending-move cancellation produces,
\* false on initial() and on every position another outcome of next newly
\* produces (fresh move, alternative completion, Lifted, Errors, clearing); a
\* no-op next on a returned position gives that position back, flag still true.
C40_ReturnedFlag == [][C40_Step]_vars

\* a reading without changes of the position a take-back returned
C40_Witness ==
  /\ log = "no changes detected"
  /\ pos.returned
  /\ receiver = pos
  /\ pos.pendingSide = noPending
  /\ Len(chess.history) = 1
====
